---- MODULE Spec2Model ----
(***************************************************************************)
(* DiagnosticService (quota governor, diagnosis cache, Gemini client,      *)
(* rule-based engine) as a state machine.                                  *)
(*                                                                         *)
(* Time is counted in abstract ticks.  The durations and the ceiling of    *)
(* the constructor (60 000 ms, 3 600 000 ms, 50 calls) are scaled down to  *)
(* the tick counts below; their order (interval < expiry < day) is kept.   *)
(* Node runs one callback at a time: a handler runs atomically from its    *)
(* start to its first await that really suspends, and from the resumption  *)
(* to its return.                                                          *)
(***************************************************************************)
EXTENDS Integers, Sequences, FiniteSets, TLC

VARIABLES
  clock,           \* Date.now()
  lastResetDate,   \* this.lastResetDate
  dailyCallCount,  \* this.dailyCallCount
  lastGeminiCall,  \* this.lastGeminiCall
  diagnosisCache,  \* this.diagnosisCache : cacheKey -> [data, timestamp]
  call,            \* the generateDiagnosis invocations: locals of each
  ev,              \* what the last step did (observation only)
  invokedToday,    \* model.generateContent calls in the current calendar day
  lastInvoke,      \* time of the latest model.generateContent call, -1 if none
  watch,           \* one finished call remembered by an observer, or NoWatch
  scan,            \* the performDiagnosticScan invocations: locals of each
  scanCount,       \* performDiagnosticScan invocations started so far
  env,             \* process.env
  organs,          \* the Organ collection: _id -> document
  vials,           \* the Vial collection: transactionRef -> document
  hook,            \* the handleWebhook invocations: locals of each
  batch            \* the diagnoseAllOrgans invocation: its locals

vars == <<clock, lastResetDate, dailyCallCount, lastGeminiCall, diagnosisCache,
          call, ev, invokedToday, lastInvoke, watch, scan, scanCount, env,
          organs, vials, hook, batch>>

\* what DiagnosticService only reads or never sees: the environment, the
\* stored documents and the controllers' requests
hostVars == <<env, organs, vials, hook, batch>>

\* the variables generateDiagnosis never touches
scanVars == <<scan, scanCount, hostVars>>

-----------------------------------------------------------------------------
(* Bounds of the model *)

IntervalTicks == 2   \* ticks standing for minCallInterval
ExpiryTicks == 3     \* ticks standing for cacheExpiry
DayTicks == 5        \* ticks in a calendar day
CeilingCalls == 2    \* calls standing for maxDailyCalls
HorizonTicks == 5    \* ticks the clock runs after construction

Req == {"r1", "r2"}  \* generateDiagnosis invocations that may overlap

-----------------------------------------------------------------------------
(* Constructor fields *)

cacheExpiry == ExpiryTicks
minCallInterval == IntervalTicks
maxDailyCalls == CeilingCalls

BootTime == DayTicks
MaxTime == BootTime + HorizonTicks

\* new Date(t).toDateString(): the calendar day of t
toDateString(t) == t \div DayTicks

Min(a, b) == IF a < b THEN a ELSE b

-----------------------------------------------------------------------------
(* Metrics snapshots: a JS object is the sequence of its <<name, value>>    *)
(* properties in insertion order.                                          *)

RECURSIVE Has(_, _)
Has(m, f) ==
  IF m = <<>> THEN FALSE
  ELSE IF m[1][1] = f THEN TRUE ELSE Has(Tail(m), f)

RECURSIVE Get(_, _)
Get(m, f) ==
  IF m[1][1] = f THEN m[1][2] ELSE Get(Tail(m), f)

\* metrics.f || d for a numeric property: undefined and 0 are falsy
NumOr(m, f, d) == IF Has(m, f) /\ Get(m, f) # 0 THEN Get(m, f) ELSE d

\* `${metrics.f}` for a string property
StrOf(m, f) == IF Has(m, f) THEN Get(m, f) ELSE "undefined"

\* JSON.stringify(metrics): the properties in insertion order, each as text
RECURSIVE JSONstringify(_)
JSONstringify(m) ==
  IF m = <<>> THEN <<>>
  ELSE <<m[1][1], ToString(m[1][2])>> \o JSONstringify(Tail(m))

\* `${organType}-${JSON.stringify(metrics)}`
cacheKey(organType, metrics) == <<organType, "-">> \o JSONstringify(metrics)

-----------------------------------------------------------------------------
(* Rule-based engine.  pH is in thousandths (7.9 is 7900).  A diagnosis     *)
(* text is the sequence of its template name and interpolated values.      *)

\* (variant: the tiers of Lungs start at their thresholds)
RuleLungs_Inclusive(metrics) ==
  LET alertCount == NumOr(metrics, "alertCount", 0)
      region == StrOf(metrics, "region")
  IN  IF alertCount >= 1000 THEN
        [status |-> "INFLAMED", severity |-> "CRITICAL",
         diagnosis |-> <<"CRITICAL RESPIRATORY DISTRESS", ToString(alertCount), region, "N/A">>]
      ELSE IF alertCount >= 500 THEN
        [status |-> "INFLAMED", severity |-> "HIGH",
         diagnosis |-> <<"ACUTE INFLAMMATION", ToString(alertCount), region>>]
      ELSE IF alertCount >= 200 THEN
        [status |-> "INFLAMED", severity |-> "MODERATE",
         diagnosis |-> <<"MODERATE STRESS", ToString(alertCount), region>>]
      ELSE
        [status |-> "HEALTHY", severity |-> "LOW",
         diagnosis |-> <<"STABLE CONDITION", ToString(alertCount), region>>]

RuleLungs(metrics) ==
  LET alertCount == NumOr(metrics, "alertCount", 0)
      region == StrOf(metrics, "region")
      area == IF Has(metrics, "totalAreaHa")
              THEN ToString(Get(metrics, "totalAreaHa")) ELSE "N/A"
  IN  IF alertCount > 1000 THEN
        [status |-> "INFLAMED", severity |-> "CRITICAL",
         diagnosis |-> <<"CRITICAL RESPIRATORY DISTRESS", ToString(alertCount), region, area>>]
      ELSE IF alertCount > 500 THEN
        [status |-> "INFLAMED", severity |-> "HIGH",
         diagnosis |-> <<"ACUTE INFLAMMATION", ToString(alertCount), region>>]
      ELSE IF alertCount > 200 THEN
        [status |-> "INFLAMED", severity |-> "MODERATE",
         diagnosis |-> <<"MODERATE STRESS", ToString(alertCount), region>>]
      ELSE
        [status |-> "HEALTHY", severity |-> "LOW",
         diagnosis |-> <<"STABLE CONDITION", ToString(alertCount), region>>]

\* (variant: a snapshot without pH is read as pH 0)
RuleVeins_MissingIsAcid(metrics) ==
  LET pH == NumOr(metrics, "pH", 0)
      location == StrOf(metrics, "location")
      level == StrOf(metrics, "acidificationLevel")
  IN  IF pH < 7900 THEN
        [status |-> "INFLAMED", severity |-> "CRITICAL",
         diagnosis |-> <<"SEVERE ACIDOSIS", ToString(pH), location>>]
      ELSE IF pH < 8000 THEN
        [status |-> "INFLAMED", severity |-> "HIGH",
         diagnosis |-> <<"ACUTE ACIDIFICATION", ToString(pH), location, level>>]
      ELSE IF pH < 8100 THEN
        [status |-> "INFLAMED", severity |-> "MODERATE",
         diagnosis |-> <<"EARLY ACIDOSIS", ToString(pH), location, level>>]
      ELSE
        [status |-> "HEALTHY", severity |-> "LOW",
         diagnosis |-> <<"OPTIMAL CIRCULATION", ToString(pH), location>>]

RuleVeins(metrics) ==
  LET pH == NumOr(metrics, "pH", 8100)
      location == StrOf(metrics, "location")
      level == StrOf(metrics, "acidificationLevel")
  IN  IF pH < 7900 THEN
        [status |-> "INFLAMED", severity |-> "CRITICAL",
         diagnosis |-> <<"SEVERE ACIDOSIS", ToString(pH), location>>]
      ELSE IF pH < 8000 THEN
        [status |-> "INFLAMED", severity |-> "HIGH",
         diagnosis |-> <<"ACUTE ACIDIFICATION", ToString(pH), location, level>>]
      ELSE IF pH < 8100 THEN
        [status |-> "INFLAMED", severity |-> "MODERATE",
         diagnosis |-> <<"EARLY ACIDOSIS", ToString(pH), location, level>>]
      ELSE
        [status |-> "HEALTHY", severity |-> "LOW",
         diagnosis |-> <<"OPTIMAL CIRCULATION", ToString(pH), location>>]

\* (variant: the mildest Skin tier keeps the initial status)
RuleSkin_MildKeepsStatus(metrics) ==
  LET aqi == NumOr(metrics, "aqi", 1)
      pm25 == NumOr(metrics, "pm25", 0)
      location == StrOf(metrics, "location")
  IN  IF aqi >= 4 \/ pm25 > 35 THEN
        [status |-> "INFLAMED", severity |-> "CRITICAL",
         diagnosis |-> <<"SEVERE DERMAL TOXICITY", ToString(aqi), location, ToString(pm25)>>]
      ELSE IF aqi >= 3 \/ pm25 > 25 THEN
        [status |-> "INFLAMED", severity |-> "HIGH",
         diagnosis |-> <<"ACUTE IRRITATION", ToString(aqi), ToString(pm25), location>>]
      ELSE IF aqi >= 2 \/ pm25 > 12 THEN
        [status |-> "HEALTHY", severity |-> "MODERATE",
         diagnosis |-> <<"MILD INFLAMMATION", ToString(aqi), ToString(pm25), location>>]
      ELSE
        [status |-> "HEALTHY", severity |-> "LOW",
         diagnosis |-> <<"HEALTHY EPIDERMIS", location, ToString(aqi), ToString(pm25)>>]

RuleSkin(metrics) ==
  LET aqi == NumOr(metrics, "aqi", 1)
      pm25 == NumOr(metrics, "pm25", 0)
      location == StrOf(metrics, "location")
  IN  IF aqi >= 4 \/ pm25 > 35 THEN
        [status |-> "INFLAMED", severity |-> "CRITICAL",
         diagnosis |-> <<"SEVERE DERMAL TOXICITY", ToString(aqi), location, ToString(pm25)>>]
      ELSE IF aqi >= 3 \/ pm25 > 25 THEN
        [status |-> "INFLAMED", severity |-> "HIGH",
         diagnosis |-> <<"ACUTE IRRITATION", ToString(aqi), ToString(pm25), location>>]
      ELSE IF aqi >= 2 \/ pm25 > 12 THEN
        [status |-> "INFLAMED", severity |-> "MODERATE",
         diagnosis |-> <<"MILD INFLAMMATION", ToString(aqi), ToString(pm25), location>>]
      ELSE
        [status |-> "HEALTHY", severity |-> "LOW",
         diagnosis |-> <<"HEALTHY EPIDERMIS", location, ToString(aqi), ToString(pm25)>>]

RuleDefault(organType) ==
  [status |-> "INFLAMED", severity |-> "LOW",
   diagnosis |-> <<"Environmental monitoring active", organType>>]

\* (variant: the engine names the exhausted quota as its source)
generateRuleBasedDiagnosis_ReadsQuota(metrics, organType, t) ==
  LET d == CASE organType = "Lungs" -> RuleLungs(metrics)
             [] organType = "Veins" -> RuleVeins(metrics)
             [] organType = "Skin" -> RuleSkin(metrics)
             [] OTHER -> RuleDefault(organType)
  IN  [diagnosis |-> d.diagnosis, status |-> d.status, severity |-> d.severity,
       source |-> IF dailyCallCount > 0 THEN "Rule-based diagnostic system (quota)"
                  ELSE "Rule-based diagnostic system",
       timestamp |-> t]

\* generateRuleBasedDiagnosis(metrics, organType), run at time t
generateRuleBasedDiagnosis(metrics, organType, t) ==
  LET d == CASE organType = "Lungs" -> RuleLungs(metrics)
             [] organType = "Veins" -> RuleVeins(metrics)
             [] organType = "Skin" -> RuleSkin(metrics)
             [] OTHER -> RuleDefault(organType)
  IN  [diagnosis |-> d.diagnosis, status |-> d.status, severity |-> d.severity,
       source |-> "Rule-based diagnostic system", timestamp |-> t]

-----------------------------------------------------------------------------
(* Gemini client: what generateDiagnosis makes of the provider's text       *)

\* The texts the provider may answer with: kind "object" is a text whose
\* first "{" to last "}" parses to the object `fields`; "noise" holds no
\* braces; "badjson" holds braces that do not parse.
Responses ==
  << [kind |-> "object",
      fields |-> [diagnosis |-> <<"provider text">>, status |-> "HEALTHY"]],
     [kind |-> "object",
      fields |-> [diagnosis |-> <<"provider text">>, status |-> "CRITICAL"]],
     [kind |-> "noise"],
     [kind |-> "badjson"],
     [kind |-> "object",
      fields |-> [diagnosis |-> <<"provider text">>]],
     [kind |-> "object",
      fields |-> [status |-> "HEALTHY"]] >>

\* (variant: the substituted diagnosis reports a healthy organ)
ParseFallback_Healthy(organType) ==
  [diagnosis |-> <<"Environmental stress detected", organType>>,
   status |-> "HEALTHY"]

\* the fallback of the inner catch
ParseFallback(organType) ==
  [diagnosis |-> <<"Environmental stress detected", organType>>,
   status |-> "INFLAMED"]

\* text.match(/\{[\s\S]*\}/) and JSON.parse, with the inner catch
ParseResponse(resp, organType) ==
  IF resp.kind = "object" THEN resp.fields ELSE ParseFallback(organType)

\* (variant: a status outside the two values is left as the provider sent it)
ValidateStatus_Unchecked(d) == d

\* if (!["INFLAMED", "HEALTHY"].includes(d.status)) d.status = "INFLAMED"
ValidateStatus(d) ==
  IF "status" \in DOMAIN d /\ d.status \in {"INFLAMED", "HEALTHY"} THEN d
  ELSE [f \in DOMAIN d \cup {"status"} |->
          IF f = "status" THEN "INFLAMED" ELSE d[f]]

-----------------------------------------------------------------------------
(* Quota governor and cache *)

\* (variant: the counter is never reset)
CountAfterReset_NoReset(t) == dailyCallCount

\* resetDailyCounterIfNeeded: the counter once the reset has run at time t
CountAfterReset(t) ==
  IF lastResetDate # toDateString(t) THEN 0 ELSE dailyCallCount

\* (variant: an entry exactly cacheExpiry old still counts as fresh)
CacheFresh_Inclusive(key, t) ==
  /\ key \in DOMAIN diagnosisCache
  /\ t - diagnosisCache[key].timestamp <= cacheExpiry

\* cached && Date.now() - cached.timestamp < this.cacheExpiry
CacheFresh(key, t) ==
  /\ key \in DOMAIN diagnosisCache
  /\ t - diagnosisCache[key].timestamp < cacheExpiry

\* (variant: the interval compared with > instead of >=)
shouldUseGemini_StrictInterval(now, last, count) ==
  /\ now - last > minCallInterval
  /\ count < maxDailyCalls

\* timeSinceLastCall >= minCallInterval && dailyCallCount < maxDailyCalls
shouldUseGemini(now, last, count) ==
  /\ now - last >= minCallInterval
  /\ count < maxDailyCalls

\* (variant: a store sweeps the entries that have expired)
CacheSet_Sweeps(key, data, t) ==
  [k \in {j \in DOMAIN diagnosisCache :
            t - diagnosisCache[j].timestamp < cacheExpiry} \cup {key} |->
     IF k = key THEN [data |-> data, timestamp |-> t] ELSE diagnosisCache[k]]

\* this.diagnosisCache.set(key, {data, timestamp})
CacheSet(key, data, t) ==
  [k \in DOMAIN diagnosisCache \cup {key} |->
     IF k = key THEN [data |-> data, timestamp |-> t] ELSE diagnosisCache[k]]

-----------------------------------------------------------------------------
(* The requests made of generateDiagnosis *)

Inputs ==
  << [organType |-> "Lungs",
      metrics |-> << <<"alertCount", 1500>>, <<"region", "Amazon">> >>],
     [organType |-> "Veins",
      metrics |-> << <<"pH", 8100>>, <<"location", "Ocean">> >>],
     [organType |-> "Heart",
      metrics |-> << <<"bpm", 60>> >>],
     [organType |-> "Lungs",
      metrics |-> << <<"region", "Amazon">>, <<"alertCount", 1500>> >>] >>

Idle == [pc |-> "idle"]
ScanIdle == [pc |-> "idle"]
NoWatch == [key |-> <<>>]

Hooks == {"h1", "h2"}   \* the handleWebhook invocations followed

HookIdle == [pc |-> "idle"]
BatchIdle == [pc |-> "idle"]

\* the documents seedOrgans inserts, by _id
seedOrgans ==
  << [name |-> "Amazon Lungs", type |-> "Lungs", healthScore |-> 35,
      symptomState |-> "INFLAMED", currentFundingUSD |-> 0,
      targetFundingUSD |-> 500000,
      lastMetricValue |-> << <<"deforestationAlerts", 0>>,
                             <<"region", "Amazon Basin">>,
                             <<"dataSource", "Global Forest Watch">> >>,
      diagnosis |-> "Awaiting initial diagnostic scan..."],
     [name |-> "Great Barrier Reef Veins", type |-> "Veins", healthScore |-> 42,
      symptomState |-> "INFLAMED", currentFundingUSD |-> 0,
      targetFundingUSD |-> 750000,
      lastMetricValue |-> << <<"pH", 0>>,
                             <<"location", "Great Barrier Reef">>,
                             <<"dataSource", "Copernicus Marine">> >>,
      diagnosis |-> "Awaiting initial diagnostic scan..."],
     [name |-> "Lagos Skin", type |-> "Skin", healthScore |-> 28,
      symptomState |-> "INFLAMED", currentFundingUSD |-> 0,
      targetFundingUSD |-> 300000,
      lastMetricValue |-> << <<"aqi", 0>>, <<"pm25", 0>>,
                             <<"location", "Lagos, Nigeria">>,
                             <<"dataSource", "OpenWeather">> >>,
      diagnosis |-> "Awaiting initial diagnostic scan..."] >>

\* the state after construction, in a process started with environment e
\* over a database holding the organ documents docs
BootOver(e, docs) ==
  /\ clock = BootTime
  /\ lastResetDate = toDateString(BootTime)
  /\ dailyCallCount = 0
  /\ lastGeminiCall = 0
  /\ diagnosisCache = <<>>
  /\ call = [r \in Req |-> Idle]
  /\ ev = [op |-> "Init"]
  /\ invokedToday = 0
  /\ lastInvoke = -1
  /\ watch = NoWatch
  /\ scan = [r \in Req |-> ScanIdle]
  /\ scanCount = 0
  /\ env = e
  /\ organs = docs
  /\ vials = <<>>
  /\ hook = [h \in Hooks |-> HookIdle]
  /\ batch = BatchIdle

Boot(e) == BootOver(e, seedOrgans)

Init == Boot([GFW_API_KEY |-> "your_gfw_api_key", FLUTTERWAVE_WEBHOOK_HASH |-> "hash"])

\* time passes, up to the limit of the specification
Tick(limit) ==
  /\ clock < limit
  /\ clock' = clock + 1
  /\ invokedToday' =
       IF toDateString(clock + 1) # toDateString(clock) THEN 0 ELSE invokedToday
  /\ ev' = [op |-> "Tick"]
  /\ UNCHANGED <<lastResetDate, dailyCallCount, lastGeminiCall, diagnosisCache,
                 call, lastInvoke, watch, scanVars>>

\* (variant: a cache hit that counts a call against the quota)
CacheHit_CountsCall(r, in) ==
  LET key == cacheKey(in.organType, in.metrics)
  IN  /\ call[r] = Idle
      /\ CacheFresh(key, clock)
      /\ dailyCallCount' = CountAfterReset(clock) + 1
      /\ lastResetDate' = toDateString(clock)
      /\ ev' = [op |-> "CacheHit", key |-> key, now |-> clock, before |-> dailyCallCount,
                result |-> diagnosisCache[key].data]
      /\ UNCHANGED <<clock, lastGeminiCall, diagnosisCache, call, invokedToday,
                     lastInvoke, watch>>

\* generateDiagnosis, lines 224-235: reset, then a fresh cache entry is returned
CacheHit(r, in) ==
  LET key == cacheKey(in.organType, in.metrics)
  IN  /\ call[r] = Idle
      /\ CacheFresh(key, clock)
      /\ dailyCallCount' = CountAfterReset(clock)
      /\ lastResetDate' = toDateString(clock)
      /\ ev' = [op |-> "CacheHit", key |-> key, now |-> clock, before |-> dailyCallCount,
                result |-> diagnosisCache[key].data]
      /\ UNCHANGED <<clock, lastGeminiCall, diagnosisCache, call, invokedToday,
                     lastInvoke, watch>>

\* (variant: a denied call that records itself as a Gemini call)
Denied_RecordsCall(r, in, observe) ==
  LET key == cacheKey(in.organType, in.metrics)
      ruleBased == generateRuleBasedDiagnosis(in.metrics, in.organType, clock)
  IN  /\ call[r] = Idle
      /\ ~CacheFresh(key, clock)
      /\ ~shouldUseGemini(clock, lastGeminiCall, CountAfterReset(clock))
      /\ dailyCallCount' = CountAfterReset(clock)
      /\ lastResetDate' = toDateString(clock)
      /\ lastGeminiCall' = clock
      /\ diagnosisCache' = CacheSet(key, ruleBased, clock)
      /\ ev' = [op |-> "Denied", key |-> key, now |-> clock, before |-> dailyCallCount, result |-> ruleBased]
      /\ UNCHANGED <<clock, call, invokedToday, lastInvoke, watch>>

\* generateDiagnosis, lines 224-259: cache miss, the governor denies
Denied(r, in, observe) ==
  LET key == cacheKey(in.organType, in.metrics)
      now == clock
      ruleBased == generateRuleBasedDiagnosis(in.metrics, in.organType, clock)
  IN  /\ call[r] = Idle
      /\ ~CacheFresh(key, clock)
      /\ ~shouldUseGemini(now, lastGeminiCall, CountAfterReset(clock))
      /\ dailyCallCount' = CountAfterReset(clock)
      /\ lastResetDate' = toDateString(clock)
      /\ diagnosisCache' = CacheSet(key, ruleBased, now)
      /\ ev' = [op |-> "Denied", key |-> key, now |-> now, before |-> dailyCallCount, result |-> ruleBased]
      /\ watch' = IF observe /\ watch = NoWatch
                  THEN [key |-> key, start |-> now, result |-> ruleBased]
                  ELSE watch
      /\ UNCHANGED <<clock, lastGeminiCall, call, invokedToday, lastInvoke>>

\* generateDiagnosis, lines 224-298: cache miss, the governor permits, the
\* call suspends in model.generateContent
Invoke(r, in) ==
  LET key == cacheKey(in.organType, in.metrics)
      now == clock
  IN  /\ call[r] = Idle
      /\ ~CacheFresh(key, clock)
      /\ shouldUseGemini(now, lastGeminiCall, CountAfterReset(clock))
      /\ dailyCallCount' = CountAfterReset(clock)
      /\ lastResetDate' = toDateString(clock)
      /\ call' = [call EXCEPT ![r] =
                    [pc |-> "awaiting", organType |-> in.organType,
                     metrics |-> in.metrics, key |-> key, now |-> now]]
      /\ invokedToday' = Min(invokedToday + 1, maxDailyCalls + 1)
      /\ lastInvoke' = clock
      /\ ev' = [op |-> "Invoke", key |-> key, now |-> now, before |-> dailyCallCount]
      /\ UNCHANGED <<clock, lastGeminiCall, diagnosisCache, watch>>

\* generateDiagnosis, lines 298-339: the provider answers with a text
GeminiReturns(r, j, observe) ==
  LET c == call[r]
      diagnosisData == ValidateStatus(ParseResponse(Responses[j], c.organType))
  IN  /\ c.pc = "awaiting"
      /\ lastGeminiCall' = c.now
      /\ dailyCallCount' = dailyCallCount + 1
      /\ diagnosisCache' = CacheSet(c.key, diagnosisData, c.now)
      /\ call' = [call EXCEPT ![r] = Idle]
      /\ ev' = [op |-> "GeminiReturns", key |-> c.key, now |-> c.now,
                resp |-> j, result |-> diagnosisData]
      /\ watch' = IF observe /\ watch = NoWatch
                  THEN [key |-> c.key, start |-> c.now, result |-> diagnosisData]
                  ELSE watch
      /\ UNCHANGED <<clock, lastResetDate, invokedToday, lastInvoke>>

\* (variant: the outer catch returns the fallback without caching it)
GeminiFails_NoStore(r, observe) ==
  LET c == call[r]
      fallbackDiagnosis == generateRuleBasedDiagnosis(c.metrics, c.organType, clock)
  IN  /\ c.pc = "awaiting"
      /\ call' = [call EXCEPT ![r] = Idle]
      /\ ev' = [op |-> "GeminiFails", key |-> c.key, now |-> c.now,
                result |-> fallbackDiagnosis]
      /\ UNCHANGED <<clock, lastResetDate, dailyCallCount, lastGeminiCall,
                     diagnosisCache, invokedToday, lastInvoke, watch>>

\* generateDiagnosis, lines 298-300 and 340-357: the provider call throws
GeminiFails(r, observe) ==
  LET c == call[r]
      fallbackDiagnosis == generateRuleBasedDiagnosis(c.metrics, c.organType, clock)
  IN  /\ c.pc = "awaiting"
      /\ diagnosisCache' = CacheSet(c.key, fallbackDiagnosis, c.now)
      /\ call' = [call EXCEPT ![r] = Idle]
      /\ ev' = [op |-> "GeminiFails", key |-> c.key, now |-> c.now,
                result |-> fallbackDiagnosis]
      /\ watch' = IF observe /\ watch = NoWatch
                  THEN [key |-> c.key, start |-> c.now, result |-> fallbackDiagnosis]
                  ELSE watch
      /\ UNCHANGED <<clock, lastResetDate, dailyCallCount, lastGeminiCall,
                     invokedToday, lastInvoke>>

-----------------------------------------------------------------------------
(* Data adapters.  A provider answers a request in one of four ways: a 2xx  *)
(* answer holding the values asked for ("data"), a 2xx answer without them  *)
(* ("empty"), an error answer or a network error ("error"), or no answer    *)
(* within the timeout given to axios ("timeout").  A Math.random draw is a  *)
(* choice from the ends of its range.                                      *)

MaxScans == 2   \* performDiagnosticScan invocations in one behaviour

ScanReq == {"r1"}  \* the performDiagnosticScan invocations followed

Organs ==
  << [name |-> "Amazon Lungs", type |-> "Lungs", healthScore |-> 35],
     [name |-> "Great Barrier Reef Veins", type |-> "Veins", healthScore |-> 42],
     [name |-> "Lagos Skin", type |-> "Skin", healthScore |-> 28],
     [name |-> "Gulf Stream Heart", type |-> "Heart", healthScore |-> 50] >>

\* organ.name.includes(part)
NameIncludes(name, part) ==
  <<name, part>> \in { <<"Amazon Lungs", "Amazon">>,
                       <<"Great Barrier Reef Veins", "Barrier">>,
                       <<"Lagos Skin", "Lagos">> }

\* GFW_API_KEY unset, left at the placeholder, or set
Envs ==
  { [GFW_API_KEY |-> k, FLUTTERWAVE_WEBHOOK_HASH |-> "hash"] :
      k \in {"", "your_gfw_api_key", "key"} }

\* process.env.GFW_API_KEY && process.env.GFW_API_KEY !== "your_gfw_api_key"
GfwConfigured == env.GFW_API_KEY # "" /\ env.GFW_API_KEY # "your_gfw_api_key"

Outcomes ==
  { [kind |-> "data"], [kind |-> "empty"], [kind |-> "error"], [kind |-> "timeout"] }

Failed(out) == out.kind \in {"error", "timeout"}

\* error.message of a failed request
ErrorMessage(out) ==
  IF out.kind = "timeout" THEN "timeout exceeded" ELSE "Request failed"

\* Math.floor(Math.random() * 1000) + 500
MockAlertCounts == {500, 1499}

\* fetchNASAWildfireData: the events of the answer that lie in the region
\* (none when the answer has no events), or the adapter's own mock
fetchNASAWildfireData(region, out, mockAlertCount, t) ==
  IF Failed(out) THEN
    << <<"alertCount", mockAlertCount>>, <<"totalAreaHa", mockAlertCount * 5>>,
       <<"region", region>>, <<"dataSource", "NASA EONET (Mock)">>,
       <<"timestamp", t>>, <<"error", ErrorMessage(out)>> >>
  ELSE
    LET alertCount == IF out.kind = "data" THEN 3 ELSE 0
    IN  << <<"alertCount", alertCount>>, <<"totalAreaHa", alertCount * 500>>,
           <<"region", region>>, <<"dataSource", "NASA EONET">>,
           <<"timestamp", t>>, <<"events", Min(alertCount, 5)>> >>

\* (variant: the chain compares the provenance with a tag no adapter writes)
IsNasaData_WrongTag(nasaData) == Get(nasaData, "dataSource") = "NASA"

\* nasaData.dataSource === "NASA EONET"
IsNasaData(nasaData) == Get(nasaData, "dataSource") = "NASA EONET"

\* the snapshot built from the first row of the Global Forest Watch answer
GfwSnapshot(region, t) ==
  << <<"alertCount", 700>>, <<"totalAreaHa", 3500>>, <<"region", region>>,
     <<"dataSource", "Global Forest Watch">>, <<"timestamp", t>> >>

\* the final fallback of fetchDeforestationData
MockDeforestation(region, mockAlertCount, t) ==
  << <<"alertCount", mockAlertCount>>, <<"totalAreaHa", mockAlertCount * 5>>,
     <<"region", region>>, <<"dataSource", "Mock Data (Realistic)">>,
     <<"timestamp", t>> >>

\* parseFloat((basePH + variation).toFixed(3)), in thousandths
OceanPHDraws(location) ==
  IF location = "Great Barrier Reef" THEN {7900, 8000} ELSE {8000, 8100}

\* (variant: the simulated reading carries no capture timestamp)
fetchNOAAOceanData_NoTimestamp(location, pH, t) ==
  << <<"pH", pH>>, <<"location", location>>, <<"coordinates", "lat,lon">>,
     <<"dataSource", "NOAA OCADS (Simulated)">>,
     <<"acidificationLevel",
       IF pH < 8000 THEN "HIGH" ELSE IF pH < 8100 THEN "MODERATE" ELSE "LOW">>,
     <<"note", "Based on NOAA Ocean Acidification trends 2020-2026">> >>

\* fetchNOAAOceanData: no request is made, the reading is simulated
fetchNOAAOceanData(location, pH, t) ==
  << <<"pH", pH>>, <<"location", location>>, <<"coordinates", "lat,lon">>,
     <<"dataSource", "NOAA OCADS (Simulated)">>, <<"timestamp", t>>,
     <<"acidificationLevel",
       IF pH < 8000 THEN "HIGH" ELSE IF pH < 8100 THEN "MODERATE" ELSE "LOW">>,
     <<"note", "Based on NOAA Ocean Acidification trends 2020-2026">> >>

\* the snapshot fetchAirQualityData builds from the air_pollution answer:
\* aqData.main?.aqi || 3, components.pm2_5 || 0, ...
OpenWeatherSnapshot(city, out, t) ==
  LET aqData == IF out.kind = "data"
                THEN << <<"aqi", 2>>, <<"pm2_5", 10>>, <<"pm10", 20>>, <<"no2", 5>> >>
                ELSE <<>>
  IN  << <<"aqi", NumOr(aqData, "aqi", 3)>>, <<"pm25", NumOr(aqData, "pm2_5", 0)>>,
         <<"pm10", NumOr(aqData, "pm10", 0)>>, <<"no2", NumOr(aqData, "no2", 0)>>,
         <<"location", city>>, <<"dataSource", "OpenWeather">>,
         <<"timestamp", t>> >>

\* the draws of the Open-Meteo adapter's mock: aqi 2..4, pm25 10..40, ...
OpenMeteoMockDraws ==
  { [aqi |-> 2, pm25 |-> 10, pm10 |-> 20, no2 |-> 5],
    [aqi |-> 4, pm25 |-> 39, pm10 |-> 69, no2 |-> 34] }

\* fetchOpenMeteoAirQuality: the current readings of the answer, or the
\* adapter's own mock when the request fails or the answer has no readings
fetchOpenMeteoAirQuality(city, out, draw, t) ==
  IF out.kind = "data" THEN
    << <<"aqi", 150>>, <<"pm25", 40>>, <<"pm10", 60>>, <<"no2", 12>>, <<"co", 300>>,
       <<"location", city>>, <<"dataSource", "Open-Meteo">>, <<"timestamp", t>> >>
  ELSE
    << <<"aqi", draw.aqi>>, <<"pm25", draw.pm25>>, <<"pm10", draw.pm10>>,
       <<"no2", draw.no2>>, <<"location", city>>,
       <<"dataSource", "Open-Meteo (Mock)">>, <<"timestamp", t>>,
       <<"error", IF out.kind = "empty" THEN "No data returned" ELSE ErrorMessage(out)>> >>

\* openMeteoData.dataSource === "Open-Meteo"
IsOpenMeteoData(openMeteoData) == Get(openMeteoData, "dataSource") = "Open-Meteo"

\* the draws of the final fallback of fetchAirQualityData: aqi 3..5, ...
MockAirDraws ==
  { [aqi |-> 3, pm25 |-> 25, pm10 |-> 40, no2 |-> 20],
    [aqi |-> 5, pm25 |-> 74, pm10 |-> 119, no2 |-> 59] }

\* the final fallback of fetchAirQualityData
MockAirQuality(city, draw, message, t) ==
  << <<"aqi", draw.aqi>>, <<"pm25", draw.pm25>>, <<"pm10", draw.pm10>>,
     <<"no2", draw.no2>>, <<"location", city>>,
     <<"dataSource", "Mock Data (Realistic)">>, <<"timestamp", t>>,
     <<"error", message>> >>

\* Math.round of the health score of performDiagnosticScan; the score is
\* computed in tenths and Math.round(x) is floor(x + 0.5)
HealthScore(organ, metrics) ==
  LET Round(tenths) == (tenths + 5) \div 10
      Max(a, b) == IF a > b THEN a ELSE b
  IN  IF organ.type = "Lungs" /\ NumOr(metrics, "alertCount", 0) # 0
        THEN Round(Max(0, 1000 - Get(metrics, "alertCount")))
      ELSE IF organ.type = "Veins" /\ NumOr(metrics, "pH", 0) # 0
        THEN Round(Min(1000, (Get(metrics, "pH") - 7500) * 2))
      ELSE IF organ.type = "Skin" /\ NumOr(metrics, "aqi", 0) # 0
        THEN Round(Max(0, 1000 - Get(metrics, "aqi") * 150))
      ELSE organ.healthScore

-----------------------------------------------------------------------------
(* performDiagnosticScan and the fallback chains it awaits.  `tried` lists  *)
(* the adapters the chain has called, each with the way it was answered.   *)

\* the variables a step of a chain that is still fetching leaves alone
diagVars == <<clock, lastResetDate, dailyCallCount, lastGeminiCall,
              diagnosisCache, call, invokedToday, lastInvoke, watch>>

Known(type) == type \in {"Lungs", "Veins", "Skin"}

\* request r is free to carry a new performDiagnosticScan
ScanFree(r) ==
  /\ scan[r].pc \in {"idle", "returned", "threw"}
  /\ call[r] = Idle
  /\ scanCount < MaxScans

Pending(adapter) == [adapter |-> adapter, outcome |-> "pending"]

Answered(tried, out) == [tried EXCEPT ![Len(tried)].outcome = out.kind]

\* performDiagnosticScan, lines 481-495: the value returned at time t
ScanResult(c, d, t) ==
  [metrics |-> c.metrics,
   diagnosis |-> IF "diagnosis" \in DOMAIN d THEN d.diagnosis ELSE <<>>,
   status |-> d.status,
   healthScore |-> HealthScore(c.organ, c.metrics),
   timestamp |-> t]

Returned(c, d, t) ==
  [pc |-> "returned", organ |-> c.organ, tried |-> c.tried, result |-> ScanResult(c, d, t)]

\* performDiagnosticScan, line 478 on: the chain has returned `metrics`;
\* generateDiagnosis runs to its return or to its await of the provider
Diagnose(r, organ, metrics, tried) ==
  LET in == [organType |-> organ.type, metrics |-> metrics]
      c == [pc |-> "diagnosing", organ |-> organ, metrics |-> metrics, tried |-> tried]
  IN  \/ /\ CacheHit(r, in)
         /\ scan' = [scan EXCEPT ![r] = Returned(c, ev'.result, clock)]
      \/ /\ Denied(r, in, FALSE)
         /\ scan' = [scan EXCEPT ![r] = Returned(c, ev'.result, clock)]
      \/ /\ Invoke(r, in)
         /\ scan' = [scan EXCEPT ![r] = c]

\* (variant: the switch has no default case and the scan goes on without
\* metrics)
ScanUnknown_FallsThrough(r, organ) ==
  /\ ScanFree(r)
  /\ ~Known(organ.type)
  /\ Diagnose(r, organ, <<>>, <<>>)
  /\ scanCount' = scanCount + 1
  /\ UNCHANGED hostVars

\* performDiagnosticScan, default case of the switch: the error is thrown
ScanUnknown(r, organ) ==
  /\ ScanFree(r)
  /\ ~Known(organ.type)
  /\ scan' = [scan EXCEPT ![r] =
                [pc |-> "threw", organ |-> organ, tried |-> <<>>,
                 error |-> <<"Unknown organ type", organ.type>>]]
  /\ scanCount' = scanCount + 1
  /\ ev' = [op |-> "ScanThrows"]
  /\ UNCHANGED <<diagVars, hostVars>>

\* performDiagnosticScan for Lungs: fetchDeforestationData calls the NASA
\* EONET adapter, which sends its request
ScanLungs(r, organ) ==
  /\ ScanFree(r)
  /\ organ.type = "Lungs"
  /\ scan' = [scan EXCEPT ![r] =
                [pc |-> "nasa", organ |-> organ,
                 arg |-> IF NameIncludes(organ.name, "Amazon") THEN "Amazon" ELSE "Congo",
                 tried |-> <<Pending("NASA EONET")>>]]
  /\ scanCount' = scanCount + 1
  /\ ev' = [op |-> "Fetch"]
  /\ UNCHANGED <<diagVars, hostVars>>

\* performDiagnosticScan for Veins: fetchOceanPHData returns what the NOAA
\* adapter simulates, and generateDiagnosis starts
ScanVeins(r, organ, pH) ==
  LET location == IF NameIncludes(organ.name, "Barrier")
                  THEN "Great Barrier Reef" ELSE "Ocean"
  IN  /\ ScanFree(r)
      /\ organ.type = "Veins"
      /\ pH \in OceanPHDraws(location)
      /\ Diagnose(r, organ, fetchNOAAOceanData(location, pH, clock),
                  <<[adapter |-> "NOAA OCADS", outcome |-> "simulated"]>>)
      /\ scanCount' = scanCount + 1
      /\ UNCHANGED hostVars

\* performDiagnosticScan for Skin: fetchAirQualityData sends the geocoding
\* request to OpenWeather
ScanSkin(r, organ) ==
  /\ ScanFree(r)
  /\ organ.type = "Skin"
  /\ scan' = [scan EXCEPT ![r] =
                [pc |-> "owGeo", organ |-> organ,
                 arg |-> IF NameIncludes(organ.name, "Lagos") THEN "Lagos" ELSE "Delhi",
                 tried |-> <<Pending("OpenWeather")>>]]
  /\ scanCount' = scanCount + 1
  /\ ev' = [op |-> "Fetch"]
  /\ UNCHANGED <<diagVars, hostVars>>

\* fetchDeforestationData, lines 30-94, from the answer of NASA EONET
NasaResponds(r, out, adapterMock, chainMock) ==
  LET c == scan[r]
      nasaData == fetchNASAWildfireData(c.arg, out, adapterMock, clock)
      tried == Answered(c.tried, out)
  IN  /\ c.pc = "nasa"
      /\ IF IsNasaData(nasaData) THEN
           Diagnose(r, c.organ, nasaData, tried)
         ELSE IF GfwConfigured THEN
           /\ scan' = [scan EXCEPT ![r] =
                         [c EXCEPT !.pc = "gfw",
                                   !.tried = tried \o <<Pending("Global Forest Watch")>>]]
           /\ ev' = [op |-> "Fetch"]
           /\ UNCHANGED diagVars
         ELSE
           Diagnose(r, c.organ, MockDeforestation(c.arg, chainMock, clock), tried)
      /\ UNCHANGED <<scanCount, hostVars>>

\* fetchDeforestationData, lines 61-94, from the answer of Global Forest Watch
GfwResponds(r, out, chainMock) ==
  LET c == scan[r]
      tried == Answered(c.tried, out)
  IN  /\ c.pc = "gfw"
      /\ IF out.kind = "data"
         THEN Diagnose(r, c.organ, GfwSnapshot(c.arg, clock), tried)
         ELSE Diagnose(r, c.organ, MockDeforestation(c.arg, chainMock, clock), tried)
      /\ UNCHANGED <<scanCount, hostVars>>

\* fetchAirQualityData, lines 136-156 and 174-181, from the answer to the
\* geocoding request: the air_pollution request is sent (for the default
\* coordinates when no place matched), or OpenWeather has failed and the
\* Open-Meteo adapter sends its request
OwGeoResponds(r, out) ==
  LET c == scan[r]
  IN  /\ c.pc = "owGeo"
      /\ scan' = [scan EXCEPT ![r] =
           IF Failed(out)
           THEN [pc |-> "meteo", organ |-> c.organ, arg |-> c.arg,
                 tried |-> Answered(c.tried, out) \o <<Pending("Open-Meteo")>>,
                 message |-> ErrorMessage(out)]
           ELSE [c EXCEPT !.pc = "owAq"]]
      /\ ev' = [op |-> "Fetch"]
      /\ UNCHANGED <<diagVars, scanCount, hostVars>>

\* fetchAirQualityData, lines 158-181, from the answer to the air_pollution
\* request
OwAqResponds(r, out) ==
  LET c == scan[r]
  IN  /\ c.pc = "owAq"
      /\ IF Failed(out) THEN
           /\ scan' = [scan EXCEPT ![r] =
                [pc |-> "meteo", organ |-> c.organ, arg |-> c.arg,
                 tried |-> Answered(c.tried, out) \o <<Pending("Open-Meteo")>>,
                 message |-> ErrorMessage(out)]]
           /\ ev' = [op |-> "Fetch"]
           /\ UNCHANGED diagVars
         ELSE
           Diagnose(r, c.organ, OpenWeatherSnapshot(c.arg, out, clock),
                    Answered(c.tried, out))
      /\ UNCHANGED <<scanCount, hostVars>>

\* (variant: the error of the Open-Meteo adapter goes up to the caller)
MeteoResponds_Rethrows(r, out, adapterMock, chainMock) ==
  LET c == scan[r]
      openMeteoData == fetchOpenMeteoAirQuality(c.arg, out, adapterMock, clock)
      tried == Answered(c.tried, out)
  IN  /\ c.pc = "meteo"
      /\ IF IsOpenMeteoData(openMeteoData) THEN
           Diagnose(r, c.organ, openMeteoData, tried)
         ELSE
           /\ scan' = [scan EXCEPT ![r] =
                [pc |-> "threw", organ |-> c.organ, tried |-> tried,
                 error |-> <<Get(openMeteoData, "error")>>]]
           /\ ev' = [op |-> "ScanThrows"]
           /\ UNCHANGED diagVars
      /\ UNCHANGED <<scanCount, hostVars>>

\* fetchAirQualityData, lines 176-201, from the answer of Open-Meteo
MeteoResponds(r, out, adapterMock, chainMock) ==
  LET c == scan[r]
      openMeteoData == fetchOpenMeteoAirQuality(c.arg, out, adapterMock, clock)
      tried == Answered(c.tried, out)
  IN  /\ c.pc = "meteo"
      /\ IF IsOpenMeteoData(openMeteoData) THEN
           Diagnose(r, c.organ, openMeteoData, tried)
         ELSE
           Diagnose(r, c.organ,
                    MockAirQuality(c.arg, chainMock, c.message, clock), tried)
      /\ UNCHANGED <<scanCount, hostVars>>

\* performDiagnosticScan, lines 478-495, when the provider answers the
\* generateDiagnosis call it awaits
ScanGeminiReturns(r, j) ==
  /\ scan[r].pc = "diagnosing"
  /\ GeminiReturns(r, j, FALSE)
  /\ scan' = [scan EXCEPT ![r] = Returned(scan[r], ev'.result, clock)]
  /\ UNCHANGED <<scanCount, hostVars>>

\* performDiagnosticScan, lines 478-495, when the provider call throws
ScanGeminiFails(r) ==
  /\ scan[r].pc = "diagnosing"
  /\ GeminiFails(r, FALSE)
  /\ scan' = [scan EXCEPT ![r] = Returned(scan[r], ev'.result, clock)]
  /\ UNCHANGED <<scanCount, hostVars>>

\* the provider texts of the specification Spec: a well-formed object, noise
CoreResponses == {1, 3}

\* the requests of the specification Spec
CoreInputs == {1, 2}

Next ==
  \/ Tick(MaxTime)
  \/ \E r \in Req, i \in CoreInputs :
       CacheHit(r, Inputs[i]) /\ UNCHANGED scanVars
  \/ \E r \in Req, i \in CoreInputs :
       Denied(r, Inputs[i], FALSE) /\ UNCHANGED scanVars
  \/ \E r \in Req, i \in CoreInputs :
       Invoke(r, Inputs[i]) /\ UNCHANGED scanVars
  \/ \E r \in Req, j \in CoreResponses :
       GeminiReturns(r, j, FALSE) /\ UNCHANGED scanVars
  \/ \E r \in Req :
       GeminiFails(r, FALSE) /\ UNCHANGED scanVars

Spec == Init /\ [][Next]_vars

\* The same service called for one snapshot only, within one cache window
\* after construction, with an observer that may remember one finished call.
NextWatch ==
  \/ Tick(BootTime + ExpiryTicks)
  \/ \E r \in Req :
       CacheHit(r, Inputs[1]) /\ UNCHANGED scanVars
  \/ \E r \in Req, o \in BOOLEAN :
       Denied(r, Inputs[1], o) /\ UNCHANGED scanVars
  \/ \E r \in Req :
       Invoke(r, Inputs[1]) /\ UNCHANGED scanVars
  \/ \E r \in Req, j \in CoreResponses, o \in BOOLEAN :
       GeminiReturns(r, j, o) /\ UNCHANGED scanVars
  \/ \E r \in Req, o \in BOOLEAN :
       GeminiFails(r, o) /\ UNCHANGED scanVars

SpecWatch == Init /\ [][NextWatch]_vars

\* The same service within one cache window after construction, with every
\* text the provider may answer with, called for a Lungs snapshot and for an
\* organType outside the three categories.
ClientInputs == {1, 3}

NextClient ==
  \/ Tick(BootTime + ExpiryTicks)
  \/ \E r \in Req, i \in ClientInputs :
       CacheHit(r, Inputs[i]) /\ UNCHANGED scanVars
  \/ \E r \in Req, i \in ClientInputs :
       Denied(r, Inputs[i], FALSE) /\ UNCHANGED scanVars
  \/ \E r \in Req, i \in ClientInputs :
       Invoke(r, Inputs[i]) /\ UNCHANGED scanVars
  \/ \E r \in Req, j \in 1..Len(Responses) :
       GeminiReturns(r, j, FALSE) /\ UNCHANGED scanVars
  \/ \E r \in Req :
       GeminiFails(r, FALSE) /\ UNCHANGED scanVars

SpecClient == Init /\ [][NextClient]_vars

\* The service reached through performDiagnosticScan only, as the
\* controllers do, in a process started with any environment, over one tick
\* of the clock and with a provider that answers well-formed or fails.
InitScan == \E e \in Envs : Boot(e)

NextScan ==
  \/ Tick(BootTime + 1)
  \/ \E r \in ScanReq, i \in 1..Len(Organs) : ScanUnknown(r, Organs[i])
  \/ \E r \in ScanReq, i \in 1..Len(Organs) : ScanLungs(r, Organs[i])
  \/ \E r \in ScanReq, i \in 1..Len(Organs),
          pH \in OceanPHDraws("Great Barrier Reef") \cup OceanPHDraws("Ocean") :
       ScanVeins(r, Organs[i], pH)
  \/ \E r \in ScanReq, i \in 1..Len(Organs) : ScanSkin(r, Organs[i])
  \/ \E r \in ScanReq, out \in Outcomes, a, b \in MockAlertCounts :
       NasaResponds(r, out, a, b)
  \/ \E r \in ScanReq, out \in Outcomes, b \in MockAlertCounts :
       GfwResponds(r, out, b)
  \/ \E r \in ScanReq, out \in Outcomes : OwGeoResponds(r, out)
  \/ \E r \in ScanReq, out \in Outcomes : OwAqResponds(r, out)
  \/ \E r \in ScanReq, out \in Outcomes, a \in OpenMeteoMockDraws, b \in MockAirDraws :
       MeteoResponds(r, out, a, b)
  \/ \E r \in ScanReq : ScanGeminiReturns(r, 1)
  \/ \E r \in ScanReq : ScanGeminiFails(r)

SpecScan == InitScan /\ [][NextScan]_vars

\* The service asked about a category outside the three, through
\* performDiagnosticScan and through generateDiagnosis itself.
NextUnknown ==
  \/ Tick(BootTime + ExpiryTicks)
  \/ \E r \in ScanReq, i \in 1..Len(Organs) : ScanUnknown(r, Organs[i])
  \/ \E r \in Req :
       CacheHit(r, Inputs[3]) /\ UNCHANGED scanVars
  \/ \E r \in Req :
       Denied(r, Inputs[3], FALSE) /\ UNCHANGED scanVars
  \/ \E r \in Req :
       Invoke(r, Inputs[3]) /\ UNCHANGED scanVars
  \/ \E r \in Req, j \in CoreResponses :
       GeminiReturns(r, j, FALSE) /\ UNCHANGED scanVars
  \/ \E r \in Req :
       GeminiFails(r, FALSE) /\ UNCHANGED scanVars

SpecUnknown == Init /\ [][NextUnknown]_vars

-----------------------------------------------------------------------------
(* Claims C1..C10 *)

\* the daily counter as the quota check of a call made now reads it
CountAtCheck ==
  IF lastResetDate # toDateString(clock) THEN 0 ELSE dailyCallCount

\* the governor's condition at the quota check of a call made now
PermittedNow ==
  /\ clock - lastGeminiCall >= minCallInterval
  /\ CountAtCheck < maxDailyCalls

\* C1: within one calendar day the number of model.generateContent calls,
\* failed ones included, never exceeds maxDailyCalls.
C1_InvocationsWithinCeiling == invokedToday <= maxDailyCalls

\* C2: in every reachable state dailyCallCount <= maxDailyCalls, overlapping
\* calls included.
C2_CounterWithinCeiling == dailyCallCount <= maxDailyCalls

\* C3: two successive assignments to lastGeminiCall carry times at least
\* minCallInterval apart.
C3_RecordedCallsSpaced ==
  [][(ev'.op = "GeminiReturns" /\ lastGeminiCall > 0)
       => lastGeminiCall' - lastGeminiCall >= minCallInterval]_vars

\* C4: the provider is never invoked less than minCallInterval after the
\* previous invocation, whatever that invocation's outcome.
C4_InvocationsSpaced ==
  [][(ev'.op = "Invoke" /\ lastInvoke # -1)
       => clock' - lastInvoke >= minCallInterval]_vars

\* C5: when the invocation raises a transport error, dailyCallCount is still
\* incremented by one and lastGeminiCall set to the time of that attempt.
C5_FailedCallRecorded ==
  [][ev'.op = "GeminiFails"
       => /\ dailyCallCount' = dailyCallCount + 1
          /\ lastGeminiCall' = ev'.now]_vars

\* C6: two overlapping calls with the same organType and metrics never both
\* have a provider invocation in flight.
C6_NoDuplicateInFlight ==
  \A r1, r2 \in Req :
    (r1 # r2 /\ call[r1].pc = "awaiting" /\ call[r2].pc = "awaiting")
      => call[r1].key # call[r2].key

\* C7: a call that starts after a first call for the same key has returned,
\* less than cacheExpiry after the first call's start, is a cache hit that
\* returns the first call's result (so no second provider invocation).
C7_SecondCallSameResult ==
  (/\ watch # NoWatch
   /\ ev.op \in {"CacheHit", "Denied", "Invoke"}
   /\ ev.key = watch.key
   /\ ~(ev.op = "Denied" /\ ev.result = watch.result /\ ev.now = watch.start)
   /\ ev.now - watch.start < cacheExpiry)
    => (ev.op = "CacheHit" /\ ev.result = watch.result)

\* C8 as stated: a cache hit returns the cached result and leaves
\* dailyCallCount, lastGeminiCall and the cache unchanged.
C8_HitChangesNothing ==
  [][ev'.op = "CacheHit"
       => /\ ev'.result = diagnosisCache[ev'.key].data
          /\ UNCHANGED <<dailyCallCount, lastGeminiCall, diagnosisCache>>]_vars

\* C8 amended: a cache hit returns the cached result, invokes nothing, leaves
\* lastGeminiCall and the cache unchanged, and leaves dailyCallCount unchanged
\* unless the calendar day differs from lastResetDate, when it sets it to 0.
C8_HitConsumesNoQuota ==
  [][ev'.op = "CacheHit"
       => /\ ev'.result = diagnosisCache[ev'.key].data
          /\ UNCHANGED <<lastGeminiCall, diagnosisCache, call, invokedToday,
                         lastInvoke>>
          /\ dailyCallCount' =
               IF lastResetDate # toDateString(clock) THEN 0 ELSE dailyCallCount
          /\ lastResetDate' = toDateString(clock)]_vars

\* a cache hit on a new calendar day, after calls were counted the day before
C8_Witness ==
  /\ ev.op = "CacheHit"
  /\ dailyCallCount = 0
  /\ lastGeminiCall > 0
  /\ toDateString(lastGeminiCall) # toDateString(clock)

\* a step in which a call reaches model.generateContent
Invoked == \E r \in Req : call[r].pc = "idle" /\ call'[r].pc = "awaiting"

\* a step that starts a call whose key has no fresh cache entry
MissStep ==
  /\ ev'.op \in {"CacheHit", "Denied", "Invoke"}
  /\ ~(/\ ev'.key \in DOMAIN diagnosisCache
       /\ clock - diagnosisCache[ev'.key].timestamp < cacheExpiry)

\* C9: the provider is invoked only when, at the quota check, now -
\* lastGeminiCall >= minCallInterval and dailyCallCount (after the day reset)
\* < maxDailyCalls; on a cache miss it is invoked if and only if both hold.
C9_InvokedIffPermitted ==
  [][/\ Invoked => (PermittedNow /\ MissStep)
     /\ MissStep => (Invoked <=> PermittedNow)]_vars

\* a permitted invocation exactly minCallInterval after a recorded call
C9_Witness ==
  /\ ev.op = "Invoke"
  /\ lastGeminiCall > 0
  /\ ev.now - lastGeminiCall = minCallInterval

\* a denied call returns the rule-based result of its input, made now, and
\* stores exactly that under its key, touching no other key
DeniedResultStored ==
  /\ \E i \in 1..Len(Inputs) :
       /\ ev'.key = cacheKey(Inputs[i].organType, Inputs[i].metrics)
       /\ ev'.result =
            generateRuleBasedDiagnosis(Inputs[i].metrics, Inputs[i].organType, clock)
  /\ DOMAIN diagnosisCache' = DOMAIN diagnosisCache \cup {ev'.key}
  /\ \A k \in DOMAIN diagnosisCache' :
       diagnosisCache'[k] =
         IF k = ev'.key THEN [data |-> ev'.result, timestamp |-> clock]
         ELSE diagnosisCache[k]

\* C10 as stated: a denied call returns the rule-based result, stores it
\* under its key, and leaves dailyCallCount and lastGeminiCall unchanged.
C10_DeniedChangesNoQuota ==
  [][ev'.op = "Denied"
       => /\ DeniedResultStored
          /\ UNCHANGED <<dailyCallCount, lastGeminiCall>>]_vars

\* C10 amended: a denied call returns the rule-based result, stores exactly
\* that result under its key, leaves lastGeminiCall unchanged, and leaves
\* dailyCallCount unchanged unless the calendar day differs from
\* lastResetDate, when it sets it to 0.
C10_DeniedRecordsNoCall ==
  [][ev'.op = "Denied"
       => /\ DeniedResultStored
          /\ UNCHANGED <<lastGeminiCall, call, invokedToday, lastInvoke>>
          /\ dailyCallCount' =
               IF lastResetDate # toDateString(clock) THEN 0 ELSE dailyCallCount]_vars

\* a call denied by the rate interval on a new calendar day
C10_Witness ==
  /\ ev.op = "Denied"
  /\ lastGeminiCall > 0
  /\ toDateString(lastGeminiCall) # toDateString(clock)
  /\ ev.key \in DOMAIN diagnosisCache
  /\ diagnosisCache[ev.key].data = ev.result

-----------------------------------------------------------------------------
(* Claims C11..C13 *)

\* a step that starts a generateDiagnosis call
StartStep == ev'.op \in {"CacheHit", "Denied", "Invoke"}

\* C11: when lastResetDate differs from the current calendar day at the start
\* of a call, dailyCallCount is set to zero and lastResetDate updated before
\* the quota check, so a cache miss on the new day is permitted whenever the
\* rate interval has elapsed, whatever the counter was the day before.
C11_DayRolloverResets ==
  [][(StartStep /\ lastResetDate # toDateString(clock))
       => /\ dailyCallCount' = 0
          /\ lastResetDate' = toDateString(clock)
          /\ (MissStep /\ clock - lastGeminiCall >= minCallInterval) => Invoked]_vars

\* a call on a new day is let through to the provider although the counter
\* stood at the ceiling
C11_Witness ==
  /\ ev.op = "Invoke"
  /\ ev.before >= maxDailyCalls
  /\ dailyCallCount = 0
  /\ lastResetDate = toDateString(clock)

\* C12: a cache entry is served only if it exists for the key and now -
\* entry.timestamp < cacheExpiry; an entry of age >= cacheExpiry is treated
\* as absent and the call goes on to the quota check.
C12_ServedOnlyWhenFresh ==
  [][StartStep
       => LET present == ev'.key \in DOMAIN diagnosisCache
              age == clock - diagnosisCache[ev'.key].timestamp
          IN  /\ ev'.op = "CacheHit" => (present /\ age < cacheExpiry)
              /\ (present /\ age >= cacheExpiry) => ev'.op \in {"Denied", "Invoke"}
              /\ (present /\ age < cacheExpiry) => ev'.op = "CacheHit"]_vars

\* a call finds an entry exactly cacheExpiry old and goes on to the provider
C12_Witness ==
  /\ ev.op = "Invoke"
  /\ ev.key \in DOMAIN diagnosisCache
  /\ ev.now - diagnosisCache[ev.key].timestamp = cacheExpiry

\* C13: when the provider call raises, generateDiagnosis returns (no error)
\* the rule-based result for its (metrics, organType) and stores that result
\* in the cache under the call's key.
C13_TransportErrorFallsBack ==
  [][ev'.op = "GeminiFails"
       => \E r \in Req :
            /\ call[r].pc = "awaiting"
            /\ call'[r] = Idle
            /\ "result" \in DOMAIN ev'
            /\ ev'.result =
                 generateRuleBasedDiagnosis(call[r].metrics, call[r].organType, clock)
            /\ DOMAIN diagnosisCache' = DOMAIN diagnosisCache \cup {call[r].key}
            /\ \A k \in DOMAIN diagnosisCache' :
                 diagnosisCache'[k] =
                   IF k = call[r].key
                   THEN [data |-> ev'.result, timestamp |-> call[r].now]
                   ELSE diagnosisCache[k]]_vars

\* a failed provider call has ended with its rule-based result in the cache
C13_Witness ==
  /\ ev.op = "GeminiFails"
  /\ ev.result.source = "Rule-based diagnostic system"
  /\ ev.key \in DOMAIN diagnosisCache
  /\ diagnosisCache[ev.key].data = ev.result

-----------------------------------------------------------------------------
(* Claims C14..C16: the Gemini client *)

\* the provider's text held no object, or one that does not parse
Malformed(j) == Responses[j].kind \in {"noise", "badjson"}

\* the provider's text parsed to an object whose status is absent or is
\* neither INFLAMED nor HEALTHY
BadStatus(j) ==
  /\ Responses[j].kind = "object"
  /\ \/ "status" \notin DOMAIN Responses[j].fields
     \/ Responses[j].fields.status \notin {"INFLAMED", "HEALTHY"}

\* the call of request r that was awaiting the provider returned `result`,
\* recorded itself against the quota and cached `result` under its key
ReturnsRecordsCaches(r, result) ==
  /\ call[r].pc = "awaiting" /\ call'[r] = Idle
  /\ ev'.result = result
  /\ dailyCallCount' = dailyCallCount + 1
  /\ lastGeminiCall' = call[r].now
  /\ call[r].key \in DOMAIN diagnosisCache'
  /\ diagnosisCache'[call[r].key] = [data |-> result, timestamp |-> call[r].now]

\* C14: when the provider's text holds no object or the object does not
\* parse, generateDiagnosis returns the generic "Environmental stress
\* detected" diagnosis with status INFLAMED, counts the call against the
\* quota and caches that diagnosis.
C14_MalformedSubstituted ==
  [][(ev'.op = "GeminiReturns" /\ Malformed(ev'.resp))
       => \E r \in Req :
            ReturnsRecordsCaches(r,
              [diagnosis |-> <<"Environmental stress detected", call[r].organType>>,
               status |-> "INFLAMED"])]_vars

C14_Witness ==
  /\ ev.op = "GeminiReturns" /\ Responses[ev.resp].kind = "badjson"
  /\ ev.result.status = "INFLAMED"
  /\ ev.result.diagnosis[1] = "Environmental stress detected"
  /\ diagnosisCache[ev.key].data = ev.result
  /\ dailyCallCount > 0

\* C15 (as stated): when the provider's object has a status that is absent
\* or is neither INFLAMED nor HEALTHY, the result is the generic
\* "Environmental stress detected" diagnosis with status INFLAMED, not the
\* provider's diagnosis text.
C15_BadStatusGeneric ==
  (ev.op = "GeminiReturns" /\ BadStatus(ev.resp))
    => /\ ev.result.status = "INFLAMED"
       /\ "diagnosis" \in DOMAIN ev.result
       /\ ev.result.diagnosis[1] = "Environmental stress detected"

\* C15 (amended): when the provider's object has a status that is absent or
\* is neither INFLAMED nor HEALTHY, the result is the provider's object with
\* its status set to INFLAMED and every other field, the diagnosis text
\* included, as the provider sent it.
C15_BadStatusCoerced ==
  (ev.op = "GeminiReturns" /\ BadStatus(ev.resp))
    => LET sent == Responses[ev.resp].fields
       IN  /\ DOMAIN ev.result = DOMAIN sent \cup {"status"}
           /\ ev.result.status = "INFLAMED"
           /\ \A f \in DOMAIN sent \ {"status"} : ev.result[f] = sent[f]

C15_Witness ==
  /\ ev.op = "GeminiReturns" /\ BadStatus(ev.resp)
  /\ "status" \in DOMAIN Responses[ev.resp].fields
  /\ ev.result.status = "INFLAMED"
  /\ ev.result.diagnosis = <<"provider text">>

\* C16: whatever the provider does, the result of generateDiagnosis has a
\* status of INFLAMED or HEALTHY and a diagnosis text that is not empty.
C16_ResultWellFormed ==
  "result" \in DOMAIN ev
    => /\ "status" \in DOMAIN ev.result
       /\ ev.result.status \in {"INFLAMED", "HEALTHY"}
       /\ "diagnosis" \in DOMAIN ev.result
       /\ ev.result.diagnosis # <<>>

-----------------------------------------------------------------------------
(* Claims C17..C20: performDiagnosticScan and the fallback chains *)

\* the step starts a performDiagnosticScan for an organ of unknown type
ScanOfUnknown ==
  /\ scanCount' = scanCount + 1
  /\ \E r \in Req : scan'[r] # scan[r] /\ ~Known(scan'[r].organ.type)

\* the step starts a generateDiagnosis call made with an unknown organType
DirectUnknown ==
  /\ StartStep
  /\ scanCount' = scanCount
  /\ ~Known(ev'.key[1])

\* C17 (as stated): a request for a category other than Lungs, Veins or Skin,
\* made of performDiagnosticScan or of generateDiagnosis itself, fails at
\* once: no adapter is called, Gemini is not invoked, no rule-based diagnosis
\* is produced or cached, the quota state is unchanged.
C17_UnknownFailsAtOnce ==
  [][(ScanOfUnknown \/ DirectUnknown)
       => /\ ev'.op = "ScanThrows"
          /\ UNCHANGED <<lastResetDate, dailyCallCount, lastGeminiCall,
                         diagnosisCache, call, invokedToday, lastInvoke>>]_vars

\* C17 (amended): performDiagnosticScan for an organ of unknown type fails at
\* once: no adapter is called, Gemini is not invoked, nothing is cached, the
\* quota state is unchanged.  generateDiagnosis called with an unknown
\* organType does not fail: it goes through the cache and the governor like
\* any other call, and when the rule-based engine answers it returns and
\* caches the default diagnosis, INFLAMED with severity LOW.
C17_UnknownScanFailsAtOnce ==
  [][/\ ScanOfUnknown
          => /\ ev'.op = "ScanThrows"
             /\ \E r \in Req : /\ scan'[r].pc = "threw"
                               /\ scan'[r].tried = <<>>
                               /\ scan'[r].error[1] = "Unknown organ type"
             /\ UNCHANGED <<lastResetDate, dailyCallCount, lastGeminiCall,
                            diagnosisCache, call, invokedToday, lastInvoke>>
     /\ DirectUnknown
          => /\ ev'.op = "CacheHit" <=> CacheFresh(ev'.key, clock)
             /\ ev'.op = "Invoke" => invokedToday' = Min(invokedToday + 1, maxDailyCalls + 1)
             /\ ev'.op = "Denied"
                  => /\ ev'.result.status = "INFLAMED"
                     /\ ev'.result.severity = "LOW"
                     /\ ev'.result.diagnosis[1] = "Environmental monitoring active"
                     /\ diagnosisCache'[ev'.key].data = ev'.result]_vars

C17_Witness ==
  /\ ev.op = "ScanThrows"
  /\ scan["r1"].pc = "threw"
  /\ scan["r1"].organ.type = "Heart"
  /\ dailyCallCount > 0
  /\ \E k \in DOMAIN diagnosisCache : k[1] = "Heart"

\* a chain of request r is waiting for an adapter's answer
Fetching(c) == c.pc \in {"nasa", "gfw", "owGeo", "owAq", "meteo"}

\* the chain of the scan has returned (generateDiagnosis has been called)
Fetched(c) == c.pc \in {"diagnosing", "returned"}

\* the snapshot the chain of a scan returned
SnapshotOf(c) == IF c.pc = "returned" THEN c.result.metrics ELSE c.metrics

PrimaryMetric(type) ==
  CASE type = "Lungs" -> "alertCount" [] type = "Veins" -> "pH" [] type = "Skin" -> "aqi"

\* C18: each fallback chain returns exactly one metrics snapshot to
\* performDiagnosticScan and never raises, whatever the adapters answer.
C18_ChainReturnsSnapshot ==
  [][\A r \in Req :
       /\ (Fetching(scan[r]) /\ ~Fetching(scan'[r]))
            => /\ Fetched(scan'[r])
               /\ Has(SnapshotOf(scan'[r]), PrimaryMetric(scan[r].organ.type))
               /\ Has(SnapshotOf(scan'[r]), "dataSource")
       /\ (scan'[r] # scan[r] /\ scan'[r].pc = "threw")
            => /\ ~Fetching(scan[r])
               /\ ~Known(scan'[r].organ.type)]_vars

\* every adapter of the chain failed and the scan went on with a snapshot
C18_Witness ==
  /\ Fetched(scan["r1"])
  /\ Len(scan["r1"].tried) = 2
  /\ scan["r1"].tried[1].outcome = "timeout"
  /\ scan["r1"].tried[2].outcome = "error"
  /\ Has(SnapshotOf(scan["r1"]), "aqi")

Priority(type) ==
  CASE type = "Lungs" -> <<"NASA EONET", "Global Forest Watch">>
    [] type = "Skin" -> <<"OpenWeather", "Open-Meteo">>
    [] type = "Veins" -> <<"NOAA OCADS">>

\* C19: a chain tries its adapters in the fixed priority order; an adapter
\* is tried only after every earlier one failed or gave synthetic data, none
\* is tried after one gave genuine data, and when the first fails and the
\* second gives genuine data the snapshot carries the second's provenance.
C19_PriorityOrder ==
  \A r \in Req :
    (Fetching(scan[r]) \/ Fetched(scan[r]))
      => LET c == scan[r]
             P == Priority(c.organ.type)
         IN  /\ Len(c.tried) \in 1..Len(P)
             /\ \A k \in 1..Len(c.tried) : c.tried[k].adapter = P[k]
             /\ \A k \in 1..(Len(c.tried) - 1) :
                  c.tried[k].outcome \in {"error", "timeout"}
             /\ \A k \in 1..Len(c.tried) :
                  c.tried[k].outcome = "data" => k = Len(c.tried)
             /\ (Fetched(c) /\ Len(c.tried) = 2 /\ c.tried[2].outcome = "data")
                  => Get(SnapshotOf(c), "dataSource") = P[2]

C19_Witness ==
  /\ Fetched(scan["r1"])
  /\ Len(scan["r1"].tried) = 2
  /\ scan["r1"].tried[1].outcome = "error"
  /\ scan["r1"].tried[2].outcome = "data"
  /\ Get(SnapshotOf(scan["r1"]), "dataSource") = "Global Forest Watch"

\* dataSource contains "Mock" or "Simulated"
Synthetic(m) ==
  Get(m, "dataSource") \in {"NASA EONET (Mock)", "NOAA OCADS (Simulated)",
                            "NOAA OCADS (Mock)", "Open-Meteo (Mock)",
                            "Mock Data (Realistic)"}

\* C20: a snapshot whose values were generated rather than read from a
\* provider's answer carries a synthetic provenance; when every adapter
\* failed the snapshot is synthetic; a snapshot carries a provider's name
\* only when that provider's request succeeded and supplied the values.
C20_GeneratedValuesTagged ==
  \A r \in Req :
    Fetched(scan[r])
      => LET c == scan[r]
             m == SnapshotOf(c)
             last == c.tried[Len(c.tried)]
         IN  /\ last.outcome # "data" => Synthetic(m)
             /\ ~Synthetic(m)
                  => /\ Get(m, "dataSource") = last.adapter
                     /\ last.outcome = "data"

-----------------------------------------------------------------------------
(* The rule-based engine called on its own                                  *)

MaxAlertCount == 1500   \* the largest alert count asked about

\* the snapshots the engine is asked about: every alert count up to the
\* bound and a snapshot without one, pH values and air readings on both
\* sides of each threshold, and a category outside the three
RuleInputs ==
  { [organType |-> "Lungs",
     metrics |-> << <<"alertCount", n>>, <<"region", "Amazon">> >>] :
      n \in 0..MaxAlertCount }
  \cup { [organType |-> "Lungs", metrics |-> << <<"region", "Amazon">> >>],
          [organType |-> "Veins", metrics |-> << <<"location", "Ocean">> >>],
          [organType |-> "Skin", metrics |-> << <<"location", "Lagos">> >>] }
  \cup { [organType |-> "Veins",
          metrics |-> << <<"pH", p>>, <<"location", "Ocean">> >>] :
           p \in {0, 7899, 7900, 7999, 8000, 8099, 8100} }
  \cup { [organType |-> "Skin",
          metrics |-> << <<"aqi", a>>, <<"pm25", p>>, <<"location", "Lagos">> >>] :
           a \in 0..5, p \in {0, 12, 13, 25, 26, 35, 36} }
  \cup { [organType |-> "Heart", metrics |-> << <<"bpm", 60>> >>] }

\* generateRuleBasedDiagnosis(in.metrics, in.organType) called and returning;
\* an observer may remember the invocation
RuleCall(in, observe) ==
  /\ ev' = [op |-> "Rule", organType |-> in.organType, metrics |-> in.metrics,
            now |-> clock,
            result |-> generateRuleBasedDiagnosis(in.metrics, in.organType, clock)]
  /\ watch' = IF observe
              THEN [key |-> <<"Rule">>, organType |-> in.organType,
                    metrics |-> in.metrics, now |-> clock, result |-> ev'.result]
              ELSE watch
  /\ UNCHANGED <<clock, lastResetDate, dailyCallCount, lastGeminiCall,
                 diagnosisCache, call, invokedToday, lastInvoke, scanVars>>

NextRules ==
  \/ Tick(BootTime + 1)
  \/ \E in \in RuleInputs : RuleCall(in, FALSE)

SpecRules == Init /\ [][NextRules]_vars

\* The engine called on its own while generateDiagnosis calls change the
\* shared state and time passes.
NextPure ==
  \/ Tick(BootTime + 1)
  \/ \E in \in {Inputs[1], Inputs[3]}, observe \in BOOLEAN : RuleCall(in, observe)
  \/ \E r \in Req, i \in CoreInputs :
       CacheHit(r, Inputs[i]) /\ UNCHANGED scanVars
  \/ \E r \in Req, i \in CoreInputs :
       Denied(r, Inputs[i], FALSE) /\ UNCHANGED scanVars
  \/ \E r \in Req, i \in CoreInputs :
       Invoke(r, Inputs[i]) /\ UNCHANGED scanVars
  \/ \E r \in Req :
       GeminiReturns(r, 1, FALSE) /\ UNCHANGED scanVars
  \/ \E r \in Req :
       GeminiFails(r, FALSE) /\ UNCHANGED scanVars

SpecPure == Init /\ [][NextPure]_vars

\* generateDiagnosis asked about one snapshot whose properties were
\* inserted in two orders.
OrderInputs == {Inputs[1], Inputs[4]}

NextOrder ==
  \/ Tick(BootTime + 1)
  \/ \E r \in Req, in \in OrderInputs :
       CacheHit(r, in) /\ UNCHANGED scanVars
  \/ \E r \in Req, in \in OrderInputs :
       Denied(r, in, FALSE) /\ UNCHANGED scanVars
  \/ \E r \in Req, in \in OrderInputs :
       Invoke(r, in) /\ UNCHANGED scanVars
  \/ \E r \in Req :
       GeminiReturns(r, 1, FALSE) /\ UNCHANGED scanVars
  \/ \E r \in Req :
       GeminiFails(r, FALSE) /\ UNCHANGED scanVars

SpecOrder == Init /\ [][NextOrder]_vars

\* getQuotaStatus, lines 221-247: the quotaInfo it answers with; it calls
\* no method of the service
getQuotaStatus ==
  /\ ev' = [op |-> "QuotaStatus",
            quotaInfo |->
              [dailyCallsUsed |-> dailyCallCount,
               dailyCallsLimit |-> maxDailyCalls,
               remainingCalls |-> maxDailyCalls - dailyCallCount,
               lastResetDate |-> lastResetDate,
               lastGeminiCall |-> IF lastGeminiCall > 0 THEN lastGeminiCall ELSE "null",
               cacheSize |-> Cardinality(DOMAIN diagnosisCache),
               status |-> IF dailyCallCount < maxDailyCalls
                          THEN "AVAILABLE" ELSE "QUOTA_EXCEEDED"]]
  /\ UNCHANGED <<clock, lastResetDate, dailyCallCount, lastGeminiCall,
                 diagnosisCache, call, invokedToday, lastInvoke, watch, scanVars>>

\* The quota status asked for between generateDiagnosis calls that may
\* overlap.
NextQuota ==
  \/ Tick(BootTime + ExpiryTicks)
  \/ getQuotaStatus
  \/ \E r \in Req :
       CacheHit(r, Inputs[1]) /\ UNCHANGED scanVars
  \/ \E r \in Req :
       Denied(r, Inputs[1], FALSE) /\ UNCHANGED scanVars
  \/ \E r \in Req :
       Invoke(r, Inputs[1]) /\ UNCHANGED scanVars
  \/ \E r \in Req :
       GeminiReturns(r, 1, FALSE) /\ UNCHANGED scanVars
  \/ \E r \in Req :
       GeminiFails(r, FALSE) /\ UNCHANGED scanVars

SpecQuota == Init /\ [][NextQuota]_vars

-----------------------------------------------------------------------------
(* Payments: initializePayment and handleWebhook over the Vial and Organ    *)
(* collections.  Each await of a database request really suspends the       *)
(* handler: the request takes effect, or fails, in a later step.  A         *)
(* document loaded by a handler is its own copy; save() writes the paths    *)
(* the handler modified.                                                    *)

\* what the payment handlers never touch
serviceVars == <<clock, lastResetDate, dailyCallCount, lastGeminiCall,
                 diagnosisCache, call, invokedToday, lastInvoke, watch,
                 scan, scanCount, env>>

FundedOrgans == {1}                 \* the organs that receive payments
Amounts == {100000, 250000}         \* the amounts paid, in USD
Signatures == {"", "wrong", "hash"} \* the verif-hash header; "" is none
PaymentStatuses == {"successful", "failed"}

\* `VIAL-${organId}-${Date.now()}`
TxRef(organId, t) == <<"VIAL", organId, t>>

\* a tx_ref no initializePayment produced
StrayRef == <<"VIAL", 0, 0>>

\* initializePayment, lines 14-82, for a payment in USD: the organ exists,
\* Vial.create inserts the PENDING vial unless its transactionRef is taken
initializePayment(organId, amount) ==
  LET txRef == TxRef(organId, clock)
  IN  /\ organId \in DOMAIN organs
      /\ txRef \notin DOMAIN vials
      /\ vials' = [t \in DOMAIN vials \cup {txRef} |->
                     IF t = txRef
                     THEN [organId |-> organId, amountUSD |-> amount,
                           status |-> "PENDING", processedAt |-> "null"]
                     ELSE vials[t]]
      /\ ev' = [op |-> "InitializePayment", txRef |-> txRef]
      /\ UNCHANGED <<serviceVars, organs, hook, batch>>

\* handleWebhook, lines 89-105: a delivery arrives; it is rejected by the
\* signature or the status check, or Vial.findOne is sent
HookReceive(h, signature, status, txRef) ==
  LET rejected ==
        IF signature = "" \/ signature # env.FLUTTERWAVE_WEBHOOK_HASH
        THEN "Invalid signature"
        ELSE IF status # "successful" THEN "Payment not successful"
        ELSE "none"
  IN  /\ hook[h] = HookIdle
      /\ hook' = IF rejected # "none" THEN hook
                 ELSE [hook EXCEPT ![h] = [pc |-> "findOne", txRef |-> txRef]]
      /\ ev' = [op |-> "HookReceive", signature |-> signature, status |-> status,
                txRef |-> txRef, message |-> rejected]
      /\ UNCHANGED <<serviceVars, organs, vials, batch>>

\* (variant: a vial already marked SUCCESS is processed again)
HookVialFound_NoDuplicateCheck(h, ok) ==
  LET c == hook[h]
  IN  /\ c.pc = "findOne"
      /\ ok
      /\ c.txRef \in DOMAIN vials
      /\ hook' = [hook EXCEPT ![h] =
                    [pc |-> "vial.save", txRef |-> c.txRef,
                     organId |-> vials[c.txRef].organId,
                     amountUSD |-> vials[c.txRef].amountUSD,
                     processedAt |-> clock]]
      /\ ev' = [op |-> "HookVialFound", txRef |-> c.txRef, message |-> "none"]
      /\ UNCHANGED <<serviceVars, organs, vials, batch>>

\* handleWebhook, lines 105-121 and 145-151: Vial.findOne answers or fails;
\* no vial and a vial already SUCCESS end the handler, otherwise the copy is
\* marked SUCCESS and vial.save is sent
HookVialFound(h, ok) ==
  LET c == hook[h]
      message ==
        IF ~ok THEN "Webhook processing failed"
        ELSE IF c.txRef \notin DOMAIN vials THEN "Transaction not found"
        ELSE IF vials[c.txRef].status = "SUCCESS" THEN "Already processed"
        ELSE "none"
  IN  /\ c.pc = "findOne"
      /\ hook' = [hook EXCEPT ![h] =
                    IF message # "none" THEN HookIdle
                    ELSE [pc |-> "vial.save", txRef |-> c.txRef,
                          organId |-> vials[c.txRef].organId,
                          amountUSD |-> vials[c.txRef].amountUSD,
                          processedAt |-> clock]]
      /\ ev' = [op |-> "HookVialFound", txRef |-> c.txRef, message |-> message]
      /\ UNCHANGED <<serviceVars, organs, vials, batch>>

\* handleWebhook, lines 121-124: vial.save takes effect and Organ.findById
\* is sent, or the save fails
HookVialSaved(h, ok) ==
  LET c == hook[h]
  IN  /\ c.pc = "vial.save"
      /\ vials' = IF ok
                  THEN [vials EXCEPT ![c.txRef].status = "SUCCESS",
                                     ![c.txRef].processedAt = c.processedAt]
                  ELSE vials
      /\ hook' = [hook EXCEPT ![h] =
                    IF ok THEN [c EXCEPT !.pc = "findById"] ELSE HookIdle]
      /\ ev' = [op |-> "HookVialSaved", txRef |-> c.txRef,
                message |-> IF ok THEN "none" ELSE "Webhook processing failed"]
      /\ UNCHANGED <<serviceVars, organs, batch>>

\* handleWebhook, lines 124-137: Organ.findById answers with the stored
\* organ or fails; the amount is added to the copy, the copy turns HEALING
\* at half the target, and organ.save is sent
HookOrganFound(h, ok) ==
  LET c == hook[h]
      organ == organs[c.organId]
      funding == organ.currentFundingUSD + c.amountUSD
  IN  /\ c.pc = "findById"
      /\ hook' = [hook EXCEPT ![h] =
                    IF ok
                    THEN [pc |-> "organ.save", txRef |-> c.txRef,
                          organId |-> c.organId,
                          currentFundingUSD |-> funding,
                          symptomState |->
                            IF funding * 100 >= 50 * organ.targetFundingUSD
                               /\ organ.symptomState = "INFLAMED"
                            THEN "HEALING" ELSE organ.symptomState]
                    ELSE HookIdle]
      /\ ev' = [op |-> "HookOrganFound", txRef |-> c.txRef,
                message |-> IF ok THEN "none" ELSE "Webhook processing failed"]
      /\ UNCHANGED <<serviceVars, organs, vials, batch>>

\* handleWebhook, lines 137-151: organ.save takes effect or fails, and the
\* handler answers
HookOrganSaved(h, ok) ==
  LET c == hook[h]
  IN  /\ c.pc = "organ.save"
      /\ organs' = IF ok
                   THEN [organs EXCEPT ![c.organId].currentFundingUSD = c.currentFundingUSD,
                                       ![c.organId].symptomState = c.symptomState]
                   ELSE organs
      /\ hook' = [hook EXCEPT ![h] = HookIdle]
      /\ ev' = [op |-> "HookOrganSaved", txRef |-> c.txRef,
                message |-> IF ok THEN "Webhook processed successfully"
                            ELSE "Webhook processing failed"]
      /\ UNCHANGED <<serviceVars, vials, batch>>

NextHook ==
  \/ Tick(BootTime + 1)
  \/ \E o \in FundedOrgans, a \in Amounts : initializePayment(o, a)
  \/ \E h \in Hooks, signature \in Signatures, status \in PaymentStatuses,
          txRef \in DOMAIN vials \cup {StrayRef} :
       HookReceive(h, signature, status, txRef)
  \/ \E h \in Hooks, ok \in BOOLEAN : HookVialFound(h, ok)
  \/ \E h \in Hooks, ok \in BOOLEAN : HookVialSaved(h, ok)
  \/ \E h \in Hooks, ok \in BOOLEAN : HookOrganFound(h, ok)
  \/ \E h \in Hooks, ok \in BOOLEAN : HookOrganSaved(h, ok)

SpecHook == Init /\ [][NextHook]_vars

\* an adapter request in flight ends: axios is given a timeout on each
\* (part_003:128, 253; part_004:67, 142, 155), so an answer, an error or the
\* timeout arrives
AdapterResponds ==
  \/ \E r \in ScanReq, out \in Outcomes, a, b \in MockAlertCounts :
       NasaResponds(r, out, a, b)
  \/ \E r \in ScanReq, out \in Outcomes, b \in MockAlertCounts :
       GfwResponds(r, out, b)
  \/ \E r \in ScanReq, out \in Outcomes : OwGeoResponds(r, out)
  \/ \E r \in ScanReq, out \in Outcomes : OwAqResponds(r, out)
  \/ \E r \in ScanReq, out \in Outcomes, a \in OpenMeteoMockDraws, b \in MockAirDraws :
       MeteoResponds(r, out, a, b)

\* The scans, with every adapter request ending.  model.generateContent is
\* called without a timeout or an abort signal (part_004:267-275, 298), so
\* nothing makes the provider's answer arrive.
SpecLive == InitScan /\ [][NextScan]_vars /\ WF_vars(AdapterResponds)

-----------------------------------------------------------------------------
(* diagnoseAllOrgans.  The handler awaits Organ.find, then for each organ   *)
(* loaded awaits performDiagnosticScan and organ.save in turn.  The scan    *)
(* it awaits is invocation "r1" of the scans above; the call of             *)
(* performDiagnosticScan and the resumption after its return are steps of   *)
(* their own.                                                               *)

BatchScan == "r1"

\* a stored document with the schema's defaults
Document(name, type) ==
  [name |-> name, type |-> type, healthScore |-> 50,
   symptomState |-> "INFLAMED", currentFundingUSD |-> 0,
   targetFundingUSD |-> 100000, lastMetricValue |-> "null", diagnosis |-> ""]

\* the collections diagnoseAllOrgans is run over: a document of a type the
\* service does not know and one of the seeded documents, in both orders
BatchCollections ==
  { << Document("Gulf Stream Heart", "Heart"), seedOrgans[2] >>,
    << seedOrgans[2], Document("Gulf Stream Heart", "Heart") >> }

\* what performDiagnosticScan reads of an organ
ScanArg(doc) == [name |-> doc.name, type |-> doc.type, healthScore |-> doc.healthScore]

\* diagnoseAllOrgans, line 162: Organ.find({}) is sent
BatchStart ==
  /\ batch = BatchIdle
  /\ batch' = [pc |-> "find"]
  /\ ev' = [op |-> "BatchStart"]
  /\ UNCHANGED <<serviceVars, organs, vials, hook>>

\* diagnoseAllOrgans, lines 162-167 and 205-212: Organ.find answers with
\* the stored organs, or fails and the handler answers 500
BatchFound(ok) ==
  /\ batch.pc = "find"
  /\ batch' = IF ok
              THEN [pc |-> "scan", docs |-> organs, i |-> 1, results |-> <<>>]
              ELSE [pc |-> "failed"]
  /\ ev' = [op |-> "BatchFound", ok |-> ok]
  /\ UNCHANGED <<serviceVars, organs, vials, hook>>

\* the handler is at line 169 for its i-th organ: performDiagnosticScan is
\* about to be called
BatchCalls(r) ==
  /\ r = BatchScan
  /\ batch.pc = "scan"
  /\ scan[r] = ScanIdle

\* the organ the handler is at
BatchOrgan == ScanArg(batch.docs[batch.i])

\* the loop goes on to the next organ, or the handler answers 200 with
\* the results
BatchAdvance(b, entry) ==
  [b EXCEPT !.results = Append(b.results, entry),
            !.i = b.i + 1,
            !.pc = IF b.i < Len(b.docs) THEN "scan" ELSE "done"]

\* (variant: an error ends the loop)
BatchCatch_Aborts(b, message) ==
  [b EXCEPT !.results = Append(b.results,
                               [organId |-> b.i, organName |-> b.docs[b.i].name,
                                status |-> "error", error |-> message]),
            !.pc = "done"]

\* diagnoseAllOrgans, lines 190-198: the catch of the loop body
BatchCatch(b, message) ==
  BatchAdvance(b, [organId |-> b.i, organName |-> b.docs[b.i].name,
                   status |-> "error", error |-> message])

\* diagnoseAllOrgans, lines 169-177 and 190-198: performDiagnosticScan has
\* returned and the handler resumes; it assigns the result to its copy of
\* the organ and sends organ.save, or catches what the scan threw
BatchScanned ==
  LET c == scan[BatchScan]
  IN  /\ batch.pc = "scan"
      /\ c.pc \in {"returned", "threw"}
      /\ batch' =
           IF c.pc = "threw" THEN BatchCatch(batch, c.error)
           ELSE [batch EXCEPT
                   !.pc = "save",
                   !.docs[batch.i].lastMetricValue = c.result.metrics,
                   !.docs[batch.i].diagnosis = c.result.diagnosis,
                   !.docs[batch.i].symptomState = c.result.status,
                   !.docs[batch.i].healthScore = c.result.healthScore]
      /\ scan' = [scan EXCEPT ![BatchScan] = ScanIdle]
      /\ ev' = [op |-> "BatchScanned", threw |-> c.pc = "threw"]
      /\ UNCHANGED <<diagVars, scanCount, env, organs, vials, hook>>

\* diagnoseAllOrgans, lines 177-198: organ.save takes effect and the
\* success entry is pushed, or the save fails and the catch pushes the
\* error entry
BatchSaved(ok) ==
  LET doc == batch.docs[batch.i]
  IN  /\ batch.pc = "save"
      /\ organs' = IF ok
                   THEN [organs EXCEPT ![batch.i].lastMetricValue = doc.lastMetricValue,
                                       ![batch.i].diagnosis = doc.diagnosis,
                                       ![batch.i].symptomState = doc.symptomState,
                                       ![batch.i].healthScore = doc.healthScore]
                   ELSE organs
      /\ batch' = IF ok
                  THEN BatchAdvance(batch,
                         [organId |-> batch.i, organName |-> doc.name,
                          status |-> "success", diagnosis |-> doc.diagnosis])
                  ELSE BatchCatch(batch, <<"save failed">>)
      /\ ev' = [op |-> "BatchSaved", ok |-> ok]
      /\ UNCHANGED <<serviceVars, vials, hook>>

InitBatch ==
  \E docs \in BatchCollections :
    BootOver([GFW_API_KEY |-> "your_gfw_api_key", FLUTTERWAVE_WEBHOOK_HASH |-> "hash"], docs)

NextBatch ==
  \/ Tick(BootTime + 1)
  \/ BatchStart
  \/ \E ok \in BOOLEAN : BatchFound(ok)
  \/ \E r \in ScanReq : BatchCalls(r) /\ ScanUnknown(r, BatchOrgan)
  \/ \E r \in ScanReq, pH \in OceanPHDraws("Great Barrier Reef") :
       BatchCalls(r) /\ ScanVeins(r, BatchOrgan, pH)
  \/ \E r \in ScanReq : ScanGeminiReturns(r, 1)
  \/ \E r \in ScanReq : ScanGeminiFails(r)
  \/ BatchScanned
  \/ \E ok \in BOOLEAN : BatchSaved(ok)

SpecBatch == InitBatch /\ [][NextBatch]_vars

\* The engine asked about snapshots on both sides of each threshold, an
\* observer remembering one invocation to compare the next with.
TierInputs ==
  { [organType |-> "Lungs",
     metrics |-> << <<"alertCount", n>>, <<"region", "Amazon">> >>] :
      n \in {0, 200, 201, 500, 501, 1000, 1001} }
  \cup { [organType |-> "Veins",
          metrics |-> << <<"pH", p>>, <<"location", "Ocean">> >>] :
           p \in {0, 7000, 7899, 7900, 7999, 8000, 8099, 8100} }
  \cup { [organType |-> "Skin",
          metrics |-> << <<"aqi", a>>, <<"pm25", p>>, <<"location", "Lagos">> >>] :
           a \in 0..5, p \in {0, 12, 13, 25, 26, 35, 36} }

NextTiers ==
  \/ Tick(BootTime + 1)
  \/ \E in \in TierInputs, observe \in BOOLEAN : RuleCall(in, observe)

SpecTiers == Init /\ [][NextTiers]_vars

\* The quota status asked for across a change of calendar day.
NextRollover ==
  \/ Tick(MaxTime)
  \/ getQuotaStatus
  \/ \E r \in Req :
       CacheHit(r, Inputs[1]) /\ UNCHANGED scanVars
  \/ \E r \in Req :
       Denied(r, Inputs[1], FALSE) /\ UNCHANGED scanVars
  \/ \E r \in Req :
       Invoke(r, Inputs[1]) /\ UNCHANGED scanVars
  \/ \E r \in Req :
       GeminiReturns(r, 1, FALSE) /\ UNCHANGED scanVars
  \/ \E r \in Req :
       GeminiFails(r, FALSE) /\ UNCHANGED scanVars

SpecRollover == Init /\ [][NextRollover]_vars

\* generateDiagnosis asked about two snapshots over more than one validity
\* window of the cache, the provider answering well-formed or failing.
NextCache ==
  \/ Tick(BootTime + ExpiryTicks)
  \/ \E r \in Req, i \in CoreInputs :
       CacheHit(r, Inputs[i]) /\ UNCHANGED scanVars
  \/ \E r \in Req, i \in CoreInputs :
       Denied(r, Inputs[i], FALSE) /\ UNCHANGED scanVars
  \/ \E r \in Req, i \in CoreInputs :
       Invoke(r, Inputs[i]) /\ UNCHANGED scanVars
  \/ \E r \in Req :
       GeminiReturns(r, 1, FALSE) /\ UNCHANGED scanVars
  \/ \E r \in Req :
       GeminiFails(r, FALSE) /\ UNCHANGED scanVars

SpecCache == Init /\ [][NextCache]_vars

\* Organs and snapshots the score of performDiagnosticScan is computed for:
\* stored scores over the range of the schema, readings from zero upwards
\* (alertCount in units, pH in thousandths, aqi in units).
ScoreInputs ==
  { [organ |-> [type |-> ty, healthScore |-> h], metrics |-> m] :
      ty \in {"Lungs", "Veins", "Skin", "Heart"},
      h \in {0, 42, 100},
      m \in { << <<"alertCount", n>>, <<"region", "Amazon">> >> :
                n \in {0, 4, 5, 999, 1000, MaxAlertCount} }
          \cup { << <<"pH", p>>, <<"location", "Ocean">> >> :
                p \in {0, 7000, 7499, 7500, 7900, 8000, 8001, 8100} }
          \cup { << <<"aqi", a>>, <<"pm25", 12>>, <<"location", "Lagos">> >> :
                a \in 0..7 }
          \cup { << <<"location", "Ocean">> >> } }

\* the health score of performDiagnosticScan computed for one organ and
\* one snapshot
ScoreCall(in) ==
  /\ ev' = [op |-> "Score", organ |-> in.organ, metrics |-> in.metrics,
            healthScore |-> HealthScore(in.organ, in.metrics)]
  /\ UNCHANGED <<clock, lastResetDate, dailyCallCount, lastGeminiCall,
                 diagnosisCache, call, invokedToday, lastInvoke, watch,
                 scanVars>>

NextScore == \E in \in ScoreInputs : ScoreCall(in)

SpecScore == Init /\ [][NextScore]_vars

-----------------------------------------------------------------------------
(* Claims C21..C23 *)

\* C21: for category Lungs and every alert count n, the engine returns
\* CRITICAL and INFLAMED when n > 1000, HIGH and INFLAMED when
\* 500 < n <= 1000, MODERATE and INFLAMED when 200 < n <= 500, and status
\* HEALTHY when n <= 200.
C21_LungsThresholds ==
  (ev.op = "Rule" /\ ev.organType = "Lungs" /\ Has(ev.metrics, "alertCount")) =>
    LET n == Get(ev.metrics, "alertCount")
        tier == <<ev.result.severity, ev.result.status>>
    IN  /\ n > 1000 => tier = <<"CRITICAL", "INFLAMED">>
        /\ (500 < n /\ n <= 1000) => tier = <<"HIGH", "INFLAMED">>
        /\ (200 < n /\ n <= 500) => tier = <<"MODERATE", "INFLAMED">>
        /\ n <= 200 => ev.result.status = "HEALTHY"

\* an alert count of exactly 1000 was asked about and came back HIGH
C21_Witness ==
  /\ ev.op = "Rule"
  /\ ev.organType = "Lungs"
  /\ Has(ev.metrics, "alertCount")
  /\ Get(ev.metrics, "alertCount") = 1000
  /\ ev.result.severity = "HIGH"
  /\ ev.result.status = "INFLAMED"

\* C22: the result of generateDiagnosis has the same fields whichever path
\* produced it: the fields of a result of the Gemini path are those of a
\* result of the rule-based engine (severity, source and timestamp among
\* them).
C22_SameFieldsOnEveryPath ==
  "result" \in DOMAIN ev =>
    DOMAIN ev.result = DOMAIN generateRuleBasedDiagnosis(<<>>, "Lungs", clock)

\* the step is an invocation of the engine with the arguments of the
\* invocation the observer remembers
SameArguments ==
  /\ ev'.op = "Rule"
  /\ watch.key = <<"Rule">>
  /\ watch.organType = ev'.organType
  /\ watch.metrics = ev'.metrics

-----------------------------------------------------------------------------
(* Claims C24..C26 *)

\* the same category and the same properties with the same values
SameSnapshot(a, b) ==
  /\ a.organType = b.organType
  /\ {a.metrics[i] : i \in DOMAIN a.metrics} = {b.metrics[i] : i \in DOMAIN b.metrics}

\* C24: the cache key is insensitive to the order of the properties: a
\* generateDiagnosis call about a snapshot that has the category, the
\* properties and the values of one whose entry is fresh in the cache is a
\* cache hit.
C24_ReorderedSnapshotHits ==
  [][\A a, b \in OrderInputs :
       ( /\ SameSnapshot(a, b)
         /\ StartStep
         /\ ev'.key = cacheKey(b.organType, b.metrics)
         /\ CacheFresh(cacheKey(a.organType, a.metrics), clock) )
       => ev'.op = "CacheHit"]_vars

\* C25: getQuotaStatus is a pure snapshot: it changes none of
\* dailyCallCount, lastGeminiCall, lastResetDate and the cache, and it
\* reports dailyCallsUsed = dailyCallCount, remainingCalls = maxDailyCalls -
\* dailyCallCount, which is never negative, lastResetDate, the time of the
\* last call and cacheSize = the number of cache entries.
C25_QuotaStatusIsSnapshot ==
  [][ev'.op = "QuotaStatus" =>
       LET q == ev'.quotaInfo
       IN  /\ UNCHANGED <<dailyCallCount, lastGeminiCall, lastResetDate, diagnosisCache>>
           /\ q.dailyCallsUsed = dailyCallCount
           /\ q.remainingCalls = maxDailyCalls - dailyCallCount
           /\ q.remainingCalls >= 0
           /\ q.lastResetDate = lastResetDate
           /\ q.lastGeminiCall = (IF lastGeminiCall > 0 THEN lastGeminiCall ELSE "null")
           /\ q.cacheSize = Cardinality(DOMAIN diagnosisCache)]_vars

\* C26: every performDiagnosticScan, and so every generateDiagnosis call,
\* that has started eventually returns or throws: no provider that stays
\* silent blocks the request forever.
C26_EveryCallReturns ==
  \A r \in ScanReq :
    (scan[r].pc \notin {"idle", "returned", "threw"})
      ~> (scan[r].pc \in {"returned", "threw"})

-----------------------------------------------------------------------------
(* Claims C27..C29: the payment webhook *)

RECURSIVE SumAmounts(_)
SumAmounts(refs) ==
  IF refs = {} THEN 0
  ELSE LET t == CHOOSE x \in refs : TRUE
       IN  vials[t].amountUSD + SumAmounts(refs \ {t})

\* the vials of organ o marked SUCCESS
Succeeded(o) ==
  {t \in DOMAIN vials : vials[t].organId = o /\ vials[t].status = "SUCCESS"}

\* C27: whatever the sequence or interleaving of deliveries with the same
\* tx_ref, the vial's amount is added to the organ's funding at most once:
\* an organ's funding, which starts at 0, never exceeds the sum of the
\* amounts of its vials marked SUCCESS.
C27_CreditedAtMostOnce ==
  \A o \in DOMAIN organs :
    organs[o].currentFundingUSD <= SumAmounts(Succeeded(o))

\* C28: whenever no webhook is in progress, each organ's funding equals the
\* sum of the amounts of its vials marked SUCCESS.
C28_FundingEqualsSucceeded ==
  (\A h \in Hooks : hook[h] = HookIdle) =>
    \A o \in DOMAIN organs :
      organs[o].currentFundingUSD = SumAmounts(Succeeded(o))

\* C29: a delivery with a missing or wrong verif-hash, with a status other
\* than successful, with a tx_ref no vial has, or for a vial already SUCCESS
\* ends without changing any vial or organ document; and a vial's status
\* changes only from PENDING to SUCCESS.
C29_RejectionsChangeNothing ==
  [][/\ ( /\ ev'.op = "HookReceive"
          /\ \/ ev'.signature = ""
             \/ ev'.signature # env.FLUTTERWAVE_WEBHOOK_HASH
             \/ ev'.status # "successful" )
        => UNCHANGED <<vials, organs, hook>>
     /\ \A h \in Hooks :
          ( /\ hook[h].pc = "findOne"
            /\ hook'[h] # hook[h]
            /\ ev'.message # "Webhook processing failed"
            /\ \/ hook[h].txRef \notin DOMAIN vials
               \/ vials[hook[h].txRef].status = "SUCCESS" )
          => (hook'[h] = HookIdle /\ UNCHANGED <<vials, organs>>)
     /\ \A t \in DOMAIN vials :
          vials'[t].status # vials[t].status
            => (vials[t].status = "PENDING" /\ vials'[t].status = "SUCCESS")]_vars

\* a second delivery for a vial already SUCCESS was answered "Already
\* processed"
C29_Witness ==
  /\ ev.op = "HookVialFound"
  /\ ev.message = "Already processed"
  /\ vials[ev.txRef].status = "SUCCESS"
  /\ organs[vials[ev.txRef].organId].currentFundingUSD = vials[ev.txRef].amountUSD

-----------------------------------------------------------------------------
(* Claim C30: diagnoseAllOrgans *)

\* the step is a failure of the organ the handler is at: its scan threw,
\* or its save failed
BatchFailure ==
  \/ ev'.op = "BatchScanned" /\ ev'.threw
  \/ ev'.op = "BatchSaved" /\ ~ev'.ok

\* C30: diagnoseAllOrgans goes through the organs one after another and
\* answers with exactly one entry per organ, in their order; a failure
\* while scanning or saving an organ is recorded as that organ's "error"
\* entry, leaves the stored organs as they were, and is followed by the
\* scan of the next organ if there is one; at the end the organs with an
\* "error" entry are stored as they were loaded.
C30_FailuresIsolated ==
  [][/\ BatchFailure =>
          /\ organs' = organs
          /\ Len(batch'.results) = Len(batch.results) + 1
          /\ SubSeq(batch'.results, 1, Len(batch.results)) = batch.results
          /\ batch'.results[batch.i].organId = batch.i
          /\ batch'.results[batch.i].organName = batch.docs[batch.i].name
          /\ batch'.results[batch.i].status = "error"
          /\ batch.i < Len(batch.docs) => (batch'.pc = "scan" /\ batch'.i = batch.i + 1)
     /\ batch'.pc = "scan" => Len(batch'.results) = batch'.i - 1
     /\ batch'.pc = "done" =>
          /\ Len(batch'.results) = Len(batch'.docs)
          /\ \A k \in 1..Len(batch'.docs) :
                /\ batch'.results[k].organId = k
                /\ batch'.results[k].status \in {"success", "error"}
                /\ batch'.results[k].status = "error" =>
                     organs'[k] \in {c[k] : c \in BatchCollections}]_vars

\* the handler answered after the scan of the first organ threw and the
\* second organ was scanned and saved
C30_Witness ==
  /\ batch.pc = "done"
  /\ batch.results[1].status = "error"
  /\ batch.results[2].status = "success"
  /\ organs[2].diagnosis = batch.results[2].diagnosis
  /\ organs[2].diagnosis # "Awaiting initial diagnostic scan..."

-----------------------------------------------------------------------------
(* Claims C31, C37, C38: the tiers of the rule-based engine *)

Rank(severity) ==
  CASE severity = "LOW" -> 0
    [] severity = "MODERATE" -> 1
    [] severity = "HIGH" -> 2
    [] severity = "CRITICAL" -> 3

\* snapshot b is no better than snapshot a of the same category: no fewer
\* alerts, no higher pH, no lower aqi and pm25
NoBetter(organType, a, b) ==
  CASE organType = "Lungs" -> Get(a, "alertCount") <= Get(b, "alertCount")
    [] organType = "Veins" -> Get(a, "pH") >= Get(b, "pH")
    [] organType = "Skin" -> /\ Get(a, "aqi") <= Get(b, "aqi")
                             /\ Get(a, "pm25") <= Get(b, "pm25")

\* C31: the severity of the rule-based engine is monotone in the metric,
\* over LOW < MODERATE < HIGH < CRITICAL: of two invocations for the same
\* category, the one with no fewer alerts (Lungs), no higher pH (Veins, pH
\* 0 included) or no lower aqi and pm25 (Skin) has no lower severity.
C31_SeverityMonotone ==
  ( /\ ev.op = "Rule"
    /\ watch.key = <<"Rule">>
    /\ watch.organType = ev.organType
    /\ NoBetter(ev.organType, watch.metrics, ev.metrics) )
  => Rank(ev.result.severity) >= Rank(watch.result.severity)

-----------------------------------------------------------------------------
(* Claims C32..C35: quota status, call times and the cache *)

\* C32: whenever getQuotaStatus reports QUOTA_EXCEEDED, a generateDiagnosis
\* call that misses the cache at that same moment is answered by the
\* rule-based engine and the provider is not invoked.
C32_ExceededMeansRuleBased ==
  [][( /\ ev.op = "QuotaStatus"
       /\ ev.quotaInfo.status = "QUOTA_EXCEEDED"
       /\ ev'.op \in {"Denied", "Invoke"} )
     => ev'.op = "Denied"]_vars

\* C33: lastGeminiCall never decreases, whatever the order in which
\* overlapping requests complete their provider calls.
C33_LastCallNeverDecreases ==
  [][lastGeminiCall' >= lastGeminiCall]_vars

\* the key of the step's call holds the capture timestamp of its snapshot,
\* the present time
KeyHoldsTimestamp ==
  \E i \in 1..(Len(ev'.key) - 1) :
    ev'.key[i] = "timestamp" /\ ev'.key[i + 1] = ToString(clock)

\* C34 as stated: the key holds the whole snapshot, its capture timestamp
\* included, and no performDiagnosticScan is served from the cache entry of
\* another.
C34_ScansNeverHit ==
  [][/\ StartStep => KeyHoldsTimestamp
     /\ ev'.op # "CacheHit"]_vars

\* C34, amended: the key holds the whole snapshot, its capture timestamp
\* included, and a performDiagnosticScan is served from the cache only by
\* an entry stored under a snapshot captured at the very time its own
\* snapshot was.
C34_HitOnlyAtSameTime ==
  [][/\ StartStep => KeyHoldsTimestamp
     /\ ev'.op = "CacheHit" =>
          (ev'.key \in DOMAIN diagnosisCache /\ KeyHoldsTimestamp)]_vars

\* the second scan was served from the entry the first one stored
C34_Witness ==
  /\ ev.op = "CacheHit"
  /\ scanCount = 2
  /\ \E i \in 1..(Len(ev.key) - 1) :
       ev.key[i] = "timestamp" /\ ev.key[i + 1] = ToString(clock)
  /\ \E r \in ScanReq : scan[r].pc = "returned" /\ scan[r].organ.type = "Veins"

\* the step ends a generateDiagnosis call that missed the cache
MissEnds == ev'.op \in {"Denied", "GeminiReturns", "GeminiFails"}

\* C35: the cache never removes a key, so its size never decreases; an
\* entry changes only by a store for its own key; and every
\* generateDiagnosis call that missed the cache ends by storing the result
\* it returns under its key.
C35_CacheOnlyGrows ==
  [][/\ DOMAIN diagnosisCache \subseteq DOMAIN diagnosisCache'
     /\ Cardinality(DOMAIN diagnosisCache') >= Cardinality(DOMAIN diagnosisCache)
     /\ \A k \in DOMAIN diagnosisCache :
          diagnosisCache'[k] # diagnosisCache[k] => (MissEnds /\ ev'.key = k)
     /\ MissEnds =>
          /\ ev'.key \in DOMAIN diagnosisCache'
          /\ diagnosisCache'[ev'.key].data = ev'.result]_vars

\* a call for one key ended with a store while the entry of the other key
\* had expired, and both entries are there
C35_Witness ==
  /\ ev.op \in {"Denied", "GeminiReturns", "GeminiFails"}
  /\ Cardinality(DOMAIN diagnosisCache) = 2
  /\ \E k \in DOMAIN diagnosisCache :
       /\ k # ev.key
       /\ clock - diagnosisCache[k].timestamp >= cacheExpiry

\* C37: for Lungs, Veins and Skin every result of the rule engine has status
\* HEALTHY exactly when its severity is LOW, and status INFLAMED exactly
\* when its severity is MODERATE, HIGH or CRITICAL.
C37_StatusMatchesSeverity ==
  (ev.op = "Rule" /\ Known(ev.organType)) =>
    /\ ev.result.status = "HEALTHY" <=> ev.result.severity = "LOW"
    /\ ev.result.status = "INFLAMED" <=>
         ev.result.severity \in {"MODERATE", "HIGH", "CRITICAL"}

\* the engine answered a Skin snapshot of the mildest inflamed tier
C37_Witness ==
  /\ ev.op = "Rule"
  /\ ev.organType = "Skin"
  /\ ev.result.severity = "MODERATE"
  /\ ev.result.status = "INFLAMED"

\* the snapshot holds none of the primary metrics of its category
LacksPrimary(organType, metrics) ==
  CASE organType = "Lungs" -> ~Has(metrics, "alertCount")
    [] organType = "Veins" -> ~Has(metrics, "pH")
    [] organType = "Skin" -> ~Has(metrics, "aqi") /\ ~Has(metrics, "pm25")
    [] OTHER -> FALSE

\* C38: a snapshot that lacks the primary metric of its category
\* (alertCount for Lungs, pH for Veins, aqi and pm25 for Skin) is answered
\* by the rule engine with status HEALTHY and severity LOW.
C38_MissingMetricHealthy ==
  (ev.op = "Rule" /\ LacksPrimary(ev.organType, ev.metrics)) =>
    (ev.result.status = "HEALTHY" /\ ev.result.severity = "LOW")

\* the engine answered a Veins snapshot that carries no pH
C38_Witness ==
  /\ ev.op = "Rule"
  /\ ev.organType = "Veins"
  /\ ~Has(ev.metrics, "pH")
  /\ ev.result.status = "HEALTHY"

-----------------------------------------------------------------------------
(* Claim C36: the health score of a scan *)

====
